---- MODULE Spec2Model ----
(***************************************************************************)
(* Verification model of the yuki query pipeline (src/app/src-tauri/src):  *)
(*   commands.rs  execute_query, process_query, save_message,              *)
(*                get_or_create_session, start_conversation,               *)
(*                get_conversation_history                                 *)
(*   llm.rs       parse_llm_response, analyze_query, format_query_results, *)
(*                process_conversational_query,                            *)
(*                parse_pdf_statement_chunked                              *)
(*                                                                         *)
(* Text is a sequence of one-character strings, except that a run of       *)
(* characters that no operation of the code looks into (a JSON key, a      *)
(* fixed message) may be written as one element.  Every character the code *)
(* searches for, trims or compares ('{', '}', '[', ']', the grave accent,  *)
(* white space, quotes, the letters of an SQL statement) is an element of  *)
(* its own.                                                                *)
(***************************************************************************)
EXTENDS Integers, Sequences, FiniteSets, TLC

(***************************************************************************)
(* Bounds of the model.                                                    *)
(***************************************************************************)
MaxPieces == 3      \* an SQL input is a concatenation of at most so many pieces
MaxRows == 2        \* rows the store yields for one query
MaxPages == 8       \* pages of a PDF statement
MaxProse == 3       \* characters of prose around a model answer
MaxSessions == 3    \* sessions the session commands create
MaxMessages == 4    \* messages saved by save_message called on its own
MaxHistory == 11    \* messages of a history handed to build_conversation_context
MaxAccounts == 2    \* accounts added by add_account
MaxEntries == 2     \* ledger entries saved by save_ledger_entry

VARIABLES
  current,    \* CURRENT_SESSION: the id of the current session, or NoSession
  sessions,   \* ids of the rows of conversation_sessions
  messages,   \* rows of conversation_messages, in creation order
  provider,   \* whether the settings table holds a provider
  pc,         \* per invocation of process_query: where it is
  question,   \* its argument
  history,    \* its local history
  analysis,   \* its local query_analysis (None before ANALYZE returned)
  storeAns,   \* what the store answered to its statement (None: not asked)
  llmText,    \* the text of its last FORMAT or CONVERSATIONAL answer
  result,     \* what it returned
  path,       \* the branch it returned on
  llmCalls,   \* the LLM calls it made, in order
  executed,   \* the statements it passed to execute_query
  prepared,   \* the statements execute_query handed to the store
  saves,      \* its calls of save_message and what became of them
  gate,       \* one call of execute_query on its own
  parser,     \* one call of parse_llm_response on its own
  chunker,    \* one run of parse_pdf_statement_chunked
  conv,       \* the frontend's call of a session command, one at a time
  builder,    \* one call of build_conversation_context on its own
  client,     \* one call of call_llm on its own
  book        \* the rows of accounts and of ledger

pipeVars == <<current, sessions, messages, provider, pc, question, history,
              analysis, storeAns, llmText, result, path, llmCalls,
              executed, prepared, saves, conv>>
queryVars == <<provider, pc, question, history, analysis, storeAns, llmText,
               result, path, llmCalls, executed, prepared, saves>>
vars == <<pipeVars, gate, parser, chunker, builder, client, book>>

(***************************************************************************)
(* Strings: str::trim, str::to_uppercase, str::starts_with, str::find,     *)
(* str::rfind, str::trim_start_matches, str::trim_end_matches.             *)
(***************************************************************************)
WhiteSpace == {" ", "\n", "\t"}

RECURSIVE TrimStart(_)
TrimStart(s) ==
  IF s # <<>> /\ Head(s) \in WhiteSpace THEN TrimStart(Tail(s)) ELSE s

RECURSIVE TrimEnd(_)
TrimEnd(s) ==
  IF s # <<>> /\ s[Len(s)] \in WhiteSpace
  THEN TrimEnd(SubSeq(s, 1, Len(s) - 1)) ELSE s

Trim(s) == TrimEnd(TrimStart(s))

Lower == <<"a","b","c","d","e","f","g","h","i","j","k","l","m",
           "n","o","p","q","r","s","t","u","v","w","x","y","z">>
UpperCase == <<"A","B","C","D","E","F","G","H","I","J","K","L","M",
               "N","O","P","Q","R","S","T","U","V","W","X","Y","Z">>

UpperChar(c) ==
  IF \E i \in 1..Len(Lower) : Lower[i] = c
  THEN UpperCase[CHOOSE i \in 1..Len(Lower) : Lower[i] = c]
  ELSE c

ToUppercase(s) == [i \in 1..Len(s) |-> UpperChar(s[i])]

StartsWith(s, p) == Len(s) >= Len(p) /\ SubSeq(s, 1, Len(p)) = p

EndsWith(s, p) ==
  Len(s) >= Len(p) /\ SubSeq(s, Len(s) - Len(p) + 1, Len(s)) = p

\* str::find / str::rfind of one character: 0-based index, or -1 for None
Find(s, c) ==
  IF \E i \in 1..Len(s) : s[i] = c
  THEN (CHOOSE i \in 1..Len(s) : s[i] = c /\ \A j \in 1..(i-1) : s[j] # c) - 1
  ELSE -1

RFind(s, c) ==
  IF \E i \in 1..Len(s) : s[i] = c
  THEN (CHOOSE i \in 1..Len(s) : s[i] = c /\ \A j \in (i+1)..Len(s) : s[j] # c) - 1
  ELSE -1

\* trim_start_matches / trim_end_matches strip the pattern repeatedly
RECURSIVE TrimStartMatches(_, _)
TrimStartMatches(s, p) ==
  IF StartsWith(s, p)
  THEN TrimStartMatches(SubSeq(s, Len(p) + 1, Len(s)), p) ELSE s

RECURSIVE TrimEndMatches(_, _)
TrimEndMatches(s, p) ==
  IF EndsWith(s, p)
  THEN TrimEndMatches(SubSeq(s, 1, Len(s) - Len(p)), p) ELSE s

RECURSIVE Concat(_)
Concat(ss) == IF ss = <<>> THEN <<>> ELSE Head(ss) \o Concat(Tail(ss))

(***************************************************************************)
(* serde_json: JSON values, serde_json::to_string and serde_json::from_str *)
(* (library code the repository calls; modelled by what it does).          *)
(***************************************************************************)
None == [some |-> FALSE]
Some(x) == [some |-> TRUE, v |-> x]

Fail == [ok |-> FALSE]
Ok(x) == [ok |-> TRUE, v |-> x]

JNull == [t |-> "null"]
JBool(b) == [t |-> "bool", b |-> b]
JNum(lex) == [t |-> "num", lex |-> lex]
JStr(s) == [t |-> "str", s |-> s]
JArr(items) == [t |-> "arr", items |-> items]
JObj(members) == [t |-> "obj", members |-> members]   \* <<key, value>> pairs

Q == "\""
BS == "\\"
Digits == {"0","1","2","3","4","5","6","7","8","9"}
NumChars == Digits \cup {"-", "."}

EscapeChar(c) ==
  CASE c = Q -> <<BS, Q>>
    [] c = BS -> <<BS, BS>>
    [] c = "\n" -> <<BS, "n">>
    [] c = "\t" -> <<BS, "t">>
    [] OTHER -> <<c>>

Escape(s) == Concat([i \in 1..Len(s) |-> EscapeChar(s[i])])

RECURSIVE Join(_, _)
Join(parts, sep) ==
  IF parts = <<>> THEN <<>>
  ELSE IF Len(parts) = 1 THEN parts[1]
  ELSE parts[1] \o sep \o Join(Tail(parts), sep)

\* serde_json::to_string: compact, members in the order given
RECURSIVE ToJson(_)
ToJson(j) ==
  CASE j.t = "null" -> <<"null">>
    [] j.t = "bool" -> IF j.b THEN <<"true">> ELSE <<"false">>
    [] j.t = "num" -> j.lex
    [] j.t = "str" -> <<Q>> \o Escape(j.s) \o <<Q>>
    [] j.t = "arr" ->
         <<"[">> \o Join([i \in 1..Len(j.items) |-> ToJson(j.items[i])], <<",">>)
                 \o <<"]">>
    [] j.t = "obj" ->
         <<"{">> \o Join([i \in 1..Len(j.members) |->
                           <<Q>> \o Escape(j.members[i][1]) \o <<Q, ":">>
                                 \o ToJson(j.members[i][2])], <<",">>)
                 \o <<"}">>

At(s, i) == IF i >= 1 /\ i <= Len(s) THEN s[i] ELSE ""

RECURSIVE SkipWs(_, _)
SkipWs(s, i) == IF At(s, i) \in WhiteSpace THEN SkipWs(s, i + 1) ELSE i

\* the characters of a string literal, from just after the opening quote
RECURSIVE ScanString(_, _, _)
ScanString(s, i, acc) ==
  LET c == At(s, i) IN
  IF c = "" \/ c \in {"\n", "\t"} THEN Fail
  ELSE IF c = Q THEN [ok |-> TRUE, v |-> JStr(acc), i |-> i + 1]
  ELSE IF c = BS THEN
    LET e == At(s, i + 1) IN
    IF e \in {Q, BS, "/"} THEN ScanString(s, i + 2, Append(acc, e))
    ELSE IF e = "n" THEN ScanString(s, i + 2, Append(acc, "\n"))
    ELSE IF e = "t" THEN ScanString(s, i + 2, Append(acc, "\t"))
    ELSE Fail
  ELSE ScanString(s, i + 1, Append(acc, c))

RECURSIVE NumEnd(_, _)
NumEnd(s, i) == IF At(s, i) \in NumChars THEN NumEnd(s, i + 1) ELSE i

IsDigits(d) == d # <<>> /\ \A k \in 1..Len(d) : d[k] \in Digits

\* [-] digits [. digits], no leading zero
ValidNumber(lex) ==
  LET u == IF lex # <<>> /\ lex[1] = "-" THEN Tail(lex) ELSE lex
      dot == Find(u, ".")
      ip == IF dot = -1 THEN u ELSE SubSeq(u, 1, dot)
      fp == IF dot = -1 THEN <<"0">> ELSE SubSeq(u, dot + 2, Len(u))
  IN IsDigits(ip) /\ IsDigits(fp) /\ (Len(ip) = 1 \/ ip[1] # "0")

RECURSIVE ParseValue(_, _)
RECURSIVE ParseItems(_, _, _)
RECURSIVE ParseMembers(_, _, _)

ParseValue(s, i0) ==
  LET i == SkipWs(s, i0)
      c == At(s, i)
  IN CASE c = "{" -> ParseMembers(s, i + 1, <<>>)
       [] c = "[" -> ParseItems(s, i + 1, <<>>)
       [] c = Q -> ScanString(s, i + 1, <<>>)
       [] c = "true" -> [ok |-> TRUE, v |-> JBool(TRUE), i |-> i + 1]
       [] c = "false" -> [ok |-> TRUE, v |-> JBool(FALSE), i |-> i + 1]
       [] c = "null" -> [ok |-> TRUE, v |-> JNull, i |-> i + 1]
       [] c \in NumChars ->
            LET e == NumEnd(s, i)
                lex == SubSeq(s, i, e - 1)
            IN IF ValidNumber(lex)
               THEN [ok |-> TRUE, v |-> JNum(lex), i |-> e] ELSE Fail
       [] OTHER -> Fail

\* after '[' (acc empty) or after ',' (acc non-empty)
ParseItems(s, i0, acc) ==
  LET i == SkipWs(s, i0) IN
  IF acc = <<>> /\ At(s, i) = "]"
  THEN [ok |-> TRUE, v |-> JArr(<<>>), i |-> i + 1]
  ELSE LET r == ParseValue(s, i) IN
       IF ~ r.ok THEN Fail
       ELSE LET j == SkipWs(s, r.i) IN
            IF At(s, j) = "," THEN ParseItems(s, j + 1, Append(acc, r.v))
            ELSE IF At(s, j) = "]"
            THEN [ok |-> TRUE, v |-> JArr(Append(acc, r.v)), i |-> j + 1]
            ELSE Fail

\* after '{' (acc empty) or after ',' (acc non-empty)
ParseMembers(s, i0, acc) ==
  LET i == SkipWs(s, i0) IN
  IF acc = <<>> /\ At(s, i) = "}"
  THEN [ok |-> TRUE, v |-> JObj(<<>>), i |-> i + 1]
  ELSE IF At(s, i) # Q THEN Fail
  ELSE LET k == ScanString(s, i + 1, <<>>) IN
       IF ~ k.ok THEN Fail
       ELSE LET c == SkipWs(s, k.i) IN
            IF At(s, c) # ":" THEN Fail
            ELSE LET r == ParseValue(s, c + 1) IN
                 IF ~ r.ok THEN Fail
                 ELSE LET j == SkipWs(s, r.i)
                          m == Append(acc, <<k.v.s, r.v>>)
                      IN IF At(s, j) = "," THEN ParseMembers(s, j + 1, m)
                         ELSE IF At(s, j) = "}"
                         THEN [ok |-> TRUE, v |-> JObj(m), i |-> j + 1]
                         ELSE Fail

\* serde_json::from_str::<Value>: one value, then only white space
JsonFromStr(s) ==
  LET r == ParseValue(s, 1) IN
  IF r.ok /\ SkipWs(s, r.i) = Len(s) + 1 THEN Ok(r.v) ELSE Fail

(***************************************************************************)
(* serde derive(Deserialize, Serialize) for the types of models.rs and     *)
(* llm.rs: a struct is read from a JSON object, unknown members are        *)
(* ignored, a member given twice is an error, a missing Option member is   *)
(* None, and serialization writes the members in declaration order.        *)
(***************************************************************************)
Keys(j) == {j.members[i][1] : i \in 1..Len(j.members)}

Twice(j, k) ==
  \E a, b \in 1..Len(j.members) : a # b /\ j.members[a][1] = k /\ j.members[b][1] = k

Member(j, k) == j.members[CHOOSE i \in 1..Len(j.members) : j.members[i][1] = k][2]

\* every element read by De, or a failure
DeSeq(De(_), j) ==
  IF j.t # "arr" THEN Fail
  ELSE LET rs == [i \in 1..Len(j.items) |-> De(j.items[i])] IN
       IF \A i \in 1..Len(rs) : rs[i].ok
       THEN Ok([i \in 1..Len(rs) |-> rs[i].v]) ELSE Fail

DeString(j) == IF j.t = "str" THEN Ok(j.s) ELSE Fail

DeBool(j) == IF j.t = "bool" THEN Ok(j.b) ELSE Fail

\* an f64 is kept as its shortest decimal text, "42" and "42.0" being one value
F64(lex) == IF Find(lex, ".") = -1 THEN lex \o <<".", "0">> ELSE lex

DeF64(j) == IF j.t = "num" THEN Ok(F64(j.lex)) ELSE Fail

\* a required member k read by De
Req(De(_), j, k) ==
  IF k \notin Keys(j) \/ Twice(j, k) THEN Fail ELSE De(Member(j, k))

\* an Option member k read by De: absent or null is None
Opt(De(_), j, k) ==
  IF k \notin Keys(j) THEN Ok(None)
  ELSE IF Twice(j, k) THEN Fail
  ELSE IF Member(j, k).t = "null" THEN Ok(None)
  ELSE LET r == De(Member(j, k)) IN IF r.ok THEN Ok(Some(r.v)) ELSE Fail

\* from_str of a type after from_str of a Value
AndThen(r, De(_)) == IF r.ok THEN De(r.v) ELSE Fail

\* a struct read from the JSON object j, fields being what reading each of
\* its members gave: an error if j is no object or a member failed
DeStruct(j, fields) ==
  IF j.t = "obj" /\ \A f \in DOMAIN fields : fields[f].ok
  THEN Ok([f \in DOMAIN fields |-> fields[f].v]) ELSE Fail

\* models.rs TextContent
DeTextContent(j) ==
  DeStruct(j, [body |-> Req(DeString, j, <<"body">>),
               is_error |-> Opt(DeBool, j, <<"is_error">>)])

\* models.rs ChartDataPoint
DeChartDataPoint(j) ==
  DeStruct(j, [label |-> Req(DeString, j, <<"label">>),
               value |-> Req(DeF64, j, <<"value">>)])

DeChartData(j) == DeSeq(DeChartDataPoint, j)

\* models.rs ChartContent
DeChartContent(j) ==
  DeStruct(j, [chart_type |-> Req(DeString, j, <<"chart_type">>),
               title |-> Req(DeString, j, <<"title">>),
               data |-> Req(DeChartData, j, <<"data">>),
               caption |-> Opt(DeString, j, <<"caption">>)])

DeStrings(j) == DeSeq(DeString, j)

DeRows(j) == DeSeq(DeStrings, j)

\* models.rs TableContent
DeTableContent(j) ==
  DeStruct(j, [title |-> Req(DeString, j, <<"title">>),
               columns |-> Req(DeStrings, j, <<"columns">>),
               rows |-> Req(DeRows, j, <<"rows">>),
               summary |-> Opt(DeString, j, <<"summary">>)])

\* models.rs MixedContent
DeMixedContent(j) ==
  DeStruct(j, [body |-> Req(DeString, j, <<"body">>),
               chart |-> Req(DeChartContent, j, <<"chart">>)])

\* the content of the variant named tag
DeContent(tag, c) ==
  CASE tag = <<"text">> -> DeTextContent(c)
    [] tag = <<"chart">> -> DeChartContent(c)
    [] tag = <<"table">> -> DeTableContent(c)
    [] tag = <<"mixed">> -> DeMixedContent(c)
    [] OTHER -> Fail

\* models.rs ResponseCard: #[serde(tag = "type", content = "content")]
DeResponseCard(j) ==
  IF j.t # "obj" THEN Fail
  ELSE LET tag == Req(DeString, j, <<"type">>) IN
       IF ~ tag.ok THEN Fail
       ELSE DeStruct(j, [type |-> Ok(tag.v[1]),
                         content |-> Req(LAMBDA c : DeContent(tag.v, c), j,
                                         <<"content">>)])

DeCards(j) == DeSeq(DeResponseCard, j)

\* models.rs ResponseData
DeResponseData(j) == DeStruct(j, [cards |-> Req(DeCards, j, <<"cards">>)])

\* serde_json::from_str::<ResponseData>
ResponseDataFromStr(s) == AndThen(JsonFromStr(s), DeResponseData)

\* members that #[serde(skip_serializing_if = "Option::is_none")] leaves out
OptMember(k, o, Ser(_)) == IF o.some THEN << <<k, Ser(o.v)>> >> ELSE <<>>

SerChartContent(c) ==
  JObj(<< <<<<"chart_type">>, JStr(c.chart_type)>>,
          <<<<"title">>, JStr(c.title)>>,
          <<<<"data">>, JArr([i \in 1..Len(c.data) |->
                 JObj(<< <<<<"label">>, JStr(c.data[i].label)>>,
                         <<<<"value">>, JNum(c.data[i].value)>> >>)])>> >>
       \o OptMember(<<"caption">>, c.caption, JStr))

SerContent(card) ==
  LET c == card.content IN
  CASE card.type = "text" ->
         JObj(<< <<<<"body">>, JStr(c.body)>> >>
              \o OptMember(<<"is_error">>, c.is_error, JBool))
    [] card.type = "chart" -> SerChartContent(c)
    [] card.type = "table" ->
         JObj(<< <<<<"title">>, JStr(c.title)>>,
                 <<<<"columns">>, JArr([i \in 1..Len(c.columns) |-> JStr(c.columns[i])])>>,
                 <<<<"rows">>, JArr([i \in 1..Len(c.rows) |->
                     JArr([k \in 1..Len(c.rows[i]) |-> JStr(c.rows[i][k])])])>> >>
              \o OptMember(<<"summary">>, c.summary, JStr))
    [] card.type = "mixed" ->
         JObj(<< <<<<"body">>, JStr(c.body)>>,
                 <<<<"chart">>, SerChartContent(c.chart)>> >>)

SerResponseData(v) ==
  JObj(<< <<<<"cards">>, JArr([i \in 1..Len(v.cards) |->
            JObj(<< <<<<"type">>, JStr(<<v.cards[i].type>>)>>,
                    <<<<"content">>, SerContent(v.cards[i])>> >>)])>> >>)

\* serde_json::to_string(&ResponseData)
ResponseDataToString(v) == ToJson(SerResponseData(v))

\* card constructors (ResponseCard::Text(TextContent {..}) and so on)
TextCard(body, is_error) ==
  [type |-> "text", content |-> [body |-> body, is_error |-> is_error]]
ChartContent(chart_type, title, data, caption) ==
  [chart_type |-> chart_type, title |-> title, data |-> data, caption |-> caption]
ChartCard(c) == [type |-> "chart", content |-> c]
TableCard(title, columns, rows, summary) ==
  [type |-> "table",
   content |-> [title |-> title, columns |-> columns, rows |-> rows, summary |-> summary]]
MixedCard(body, c) == [type |-> "mixed", content |-> [body |-> body, chart |-> c]]

\* llm.rs QueryAnalysis
DeQueryAnalysis(j) ==
  DeStruct(j, [needs_data |-> Req(DeBool, j, <<"needs_data">>),
               sql_query |-> Opt(DeString, j, <<"sql_query">>),
               query_type |-> Req(DeString, j, <<"query_type">>)])

\* serde_json::from_str::<QueryAnalysis>
QueryAnalysisFromStr(s) == AndThen(JsonFromStr(s), DeQueryAnalysis)

(***************************************************************************)
(* commands.rs  execute_query (lines 881-922)                              *)
(***************************************************************************)
SELECT == <<"S","E","L","E","C","T">>

OnlySelectMsg == <<"Only SELECT queries are allowed">>

\* What the store does with a statement it is handed (rusqlite, external):
\* prepare fails, or query_map fails, or stepping yields some rows and
\* then either ends or fails (stepErr); a failed step ends the iteration.
StoreAnswers ==
  {[prepare |-> "err", query |-> "ok", rows |-> 0, stepErr |-> FALSE],
   [prepare |-> "ok", query |-> "err", rows |-> 0, stepErr |-> FALSE]}
  \cup [prepare : {"ok"}, query : {"ok"}, rows : 0..MaxRows, stepErr : BOOLEAN]

DigitOf == <<"0","1","2","3","4","5","6","7","8","9">>

RECURSIVE NatToLex(_)
NatToLex(n) ==
  IF n < 10 THEN <<DigitOf[n + 1]>>
  ELSE NatToLex(n \div 10) \o <<DigitOf[(n % 10) + 1]>>

RECURSIVE LexToNat(_)
LexToNat(d) ==
  IF d = <<>> THEN 0
  ELSE 10 * LexToNat(SubSeq(d, 1, Len(d) - 1))
       + ((CHOOSE i \in 1..10 : DigitOf[i] = d[Len(d)]) - 1)

\* the safety check without the trim
PassesGateNoTrim(sql) == StartsWith(ToUppercase(sql), SELECT)

\* the safety check of lines 885-888
PassesGate(sql) == StartsWith(ToUppercase(Trim(sql)), SELECT)

\* json!({"columns": .., "rows": .., "row_count": rows.len()}).to_string();
\* serde_json's map keeps the keys sorted
QueryResultJson(columns, rows) ==
  ToJson(JObj(<< <<<<"columns">>, JArr([i \in 1..Len(columns) |-> JStr(columns[i])])>>,
                 <<<<"row_count">>, JNum(NatToLex(Len(rows)))>>,
                 <<<<"rows">>, JArr([i \in 1..Len(rows) |-> JArr(rows[i])])>> >>))

\* The result of execute_query and the statements it handed to the store.
\* Rows whose step fails are dropped by filter_map(|r| r.ok()) (line 911).
execute_query(store, sql) ==
  IF ~ PassesGate(sql)
  THEN [ok |-> FALSE, e |-> OnlySelectMsg, prepared |-> <<>>]
  ELSE IF store.prepare = "err"
  THEN [ok |-> FALSE, e |-> <<"prepare failed">>, prepared |-> <<sql>>]
  ELSE IF store.query = "err"
  THEN [ok |-> FALSE, e |-> <<"query failed">>, prepared |-> <<sql>>]
  ELSE [ok |-> TRUE,
        v |-> QueryResultJson(<< <<"total">> >>,
                              [i \in 1..store.rows |-> <<JNum(<<"1">>)>>]),
        prepared |-> <<sql>>]

\* process_query lines 805-806:
\* serde_json::from_str(&data).unwrap_or_default()["row_count"].as_i64().unwrap_or(0)
RowCount(parsed) ==
  IF parsed.ok /\ parsed.v.t = "obj" /\ <<"row_count">> \in Keys(parsed.v)
  THEN LET m == Member(parsed.v, <<"row_count">>) IN
       IF m.t = "num" /\ IsDigits(m.lex) THEN LexToNat(m.lex) ELSE 0
  ELSE 0

RowCountOf(data) == RowCount(JsonFromStr(data))

(***************************************************************************)
(* llm.rs  parse_llm_response (lines 1452-1488) and the parsing part of    *)
(* analyze_query (lines 1293-1320)                                         *)
(***************************************************************************)
\* the grave accent, written by name
BT == "GRAVE"
Fence == <<BT, BT, BT>>
FenceJson == <<BT, BT, BT, "j", "s", "o", "n">>

\* .trim().trim_start_matches(FenceJson).trim_start_matches(Fence)
\*  .trim_end_matches(Fence).trim()
Cleaned(text) ==
  Trim(TrimEndMatches(
         TrimStartMatches(TrimStartMatches(Trim(text), FenceJson), Fence), Fence))

\* &text[start..=end] for 0-based start, end: a panic when start > end + 1
SliceInclusive(text, start, end) ==
  IF start > end + 1 THEN [panic |-> TRUE]
  ELSE [panic |-> FALSE, s |-> SubSeq(text, start + 1, end + 1)]

Returned(v) == [kind |-> "ok", v |-> v]
Panicked == [kind |-> "panic"]
Failed(e) == [kind |-> "err", e |-> e]

\* the fallback of lines 1482-1487
WrapAsText(response_text) ==
  [cards |-> <<TextCard(response_text, Some(FALSE))>>]

\* an attempt that parsed is returned; otherwise the next one is made
OrElse(attempt, next) == IF attempt.ok THEN Returned(attempt.v) ELSE next

\* the attempt on a slice of the text, which panics when the slice does
FromSlice(slice, FromStr(_), fallback) ==
  IF slice.panic THEN Panicked ELSE OrElse(FromStr(slice.s), Returned(fallback))

parse_llm_response(response_text) ==
  OrElse(ResponseDataFromStr(response_text),
    OrElse(ResponseDataFromStr(Cleaned(response_text)),
      LET start == Find(response_text, "{")
          end == RFind(response_text, "}")
      IN IF start # -1 /\ end # -1
         THEN FromSlice(SliceInclusive(response_text, start, end),
                        ResponseDataFromStr, WrapAsText(response_text))
         ELSE Returned(WrapAsText(response_text))))

DefaultAnalysis ==
  [needs_data |-> FALSE, sql_query |-> None, query_type |-> <<"general">>]

\* analyze_query after the LLM call
parse_analysis(response_text) ==
  OrElse(QueryAnalysisFromStr(Cleaned(response_text)),
    LET start == Find(response_text, "{")
        end == RFind(response_text, "}")
    IN IF start # -1 /\ end # -1
       THEN FromSlice(SliceInclusive(response_text, start, end),
                      QueryAnalysisFromStr, DefaultAnalysis)
       ELSE Returned(DefaultAnalysis))

(***************************************************************************)
(* commands.rs  process_query: the cards it builds itself and the summary  *)
(* it saves as the assistant message (lines 827-835, 864-872)              *)
(***************************************************************************)
NoDataBody ==
  <<"I don't have any data matching that query yet. Try uploading some financial documents or receipts first, and then I can help you analyze your spending!">>

\* the empty-result card flagged as an error
EmptyResultAsError == [cards |-> <<TextCard(NoDataBody, Some(TRUE))>>]

EmptyResultResponse == [cards |-> <<TextCard(NoDataBody, Some(FALSE))>>]

\* the reply to a failed statement without the error flag
SqlErrorResponsePlain(e, sql) ==
  [cards |-> <<TextCard(<<"I couldn't retrieve that data. Error: ">> \o e
                           \o <<" in ">> \o sql, Some(FALSE))>>]

\* format!("I couldn't retrieve that data. Error: {} in {}", e, sql)
SqlErrorResponse(e, sql) ==
  [cards |-> <<TextCard(<<"I couldn't retrieve that data. Error: ">> \o e
                           \o <<" in ">> \o sql, Some(TRUE))>>]

Summary(first_card) ==
  CASE first_card.type = "text" -> first_card.content.body
    [] first_card.type = "chart" ->
         <<"[Chart: ">> \o first_card.content.title \o <<"]">>
    [] first_card.type = "table" ->
         <<"[Table: ">> \o first_card.content.title \o <<"]">>
    [] first_card.type = "mixed" -> first_card.content.body

(***************************************************************************)
(* llm.rs  parse_pdf_statement_chunked: the window of one chunk            *)
(* (lines 887-894)                                                         *)
(***************************************************************************)
chunk_size == 2

Min(a, b) == IF a <= b THEN a ELSE b

total_chunks(page_count) == (page_count + chunk_size - 1) \div chunk_size

start_page(chunk_idx) == chunk_idx * chunk_size + 1

\* the window's end without the clamp to the last page
end_page_unclamped(chunk_idx, page_count) == start_page(chunk_idx) + chunk_size - 1

end_page(chunk_idx, page_count) ==
  Min(start_page(chunk_idx) + chunk_size - 1, page_count)

\* models.rs ExtractedTransaction
DeExtractedTransaction(j) ==
  DeStruct(j, [date |-> Req(DeString, j, <<"date">>),
               description |-> Req(DeString, j, <<"description">>),
               amount |-> Req(DeF64, j, <<"amount">>),
               currency |-> Req(DeString, j, <<"currency">>),
               category |-> Req(DeString, j, <<"category">>),
               merchant |-> Opt(DeString, j, <<"merchant">>)])

DeTransactions(j) == DeSeq(DeExtractedTransaction, j)

\* serde_json::from_str::<Vec<ExtractedTransaction>>
TransactionsFromStr(s) == AndThen(JsonFromStr(s), DeTransactions)

\* &text[start..end] for 0-based start, end: a panic when start > end
SliceExclusive(text, start, end) ==
  IF start > end THEN [panic |-> TRUE]
  ELSE [panic |-> FALSE, s |-> SubSeq(text, start + 1, end)]

\* parse_statement_chunk lines 1008-1019, parse_single_page_statement 1083-1089
parse_transactions(response) ==
  OrElse(TransactionsFromStr(response),
    LET json_start == IF Find(response, "[") = -1 THEN 0 ELSE Find(response, "[")
        json_end == IF RFind(response, "]") = -1 THEN Len(response)
                    ELSE RFind(response, "]") + 1
    IN FromSlice(SliceExclusive(response, json_start, json_end),
                 TransactionsFromStr, <<>>))

(***************************************************************************)
(* Inputs: the SQL statements, model answers and files the operations are  *)
(* tried on.                                                               *)
(***************************************************************************)
\* every concatenation of at most n members of the set pieces
Concats(pieces, n) ==
  UNION {{Concat(f) : f \in [1..k -> pieces]} : k \in 0..n}

select_lower == <<"s","e","l","e","c","t">>
DeleteFromLedger ==
  <<"D","E","L","E","T","E"," ","F","R","O","M"," ","l","e","d","g","e","r">>

SqlPieces ==
  {<<" ">>, SELECT, select_lower, <<"S","E","L","E","C">>,
   <<"e","d">>, <<" ","1">>, DeleteFromLedger}

SqlInputs == Concats(SqlPieces, MaxPieces)

Tx1 ==
  [date |-> <<"2024-01-02">>, description |-> <<"VISA-RAILWAY">>,
   amount |-> <<"-","5",".","0">>, currency |-> <<"USD">>,
   category |-> <<"Subscriptions">>, merchant |-> Some(<<"Railway">>)]
Tx2 ==
  [date |-> <<"2024-01-03">>, description |-> <<"SALARY">>,
   amount |-> <<"9","0","0",".","0">>, currency |-> <<"USD">>,
   category |-> <<"Income">>, merchant |-> None]

SerTransaction(t) ==
  JObj(<< <<<<"date">>, JStr(t.date)>>,
          <<<<"description">>, JStr(t.description)>>,
          <<<<"amount">>, JNum(t.amount)>>,
          <<<<"currency">>, JStr(t.currency)>>,
          <<<<"category">>, JStr(t.category)>>,
          <<<<"merchant">>, IF t.merchant.some THEN JStr(t.merchant.v) ELSE JNull>> >>)

TransactionsToString(ts) == ToJson(JArr([i \in 1..Len(ts) |-> SerTransaction(ts[i])]))

\* what the vision model may answer for a chunk
ChunkTexts ==
  {TransactionsToString(<<Tx1>>),
   <<"H","e","r","e"," ">> \o TransactionsToString(<<Tx1, Tx2>>) \o <<" ","o","k">>,
   TransactionsToString(<<>>),
   <<"n","o","n","e">>,
   <<"]", " ", "[">>}

\* what the chat model may answer to FORMAT and CONVERSATIONAL
VText == [cards |-> <<TextCard(<<"4","2",".","5","0">>, None)>>]
VQuoted == [cards |-> <<TextCard(<<"a","{",Q,"\n","}",BS>>, Some(TRUE))>>]
VEmpty == [cards |-> <<>>]
VChart ==
  [cards |-> <<ChartCard(ChartContent(<<"pie">>, <<"Spending">>,
                 <<[label |-> <<"dining">>, value |-> <<"4","2",".","5">>]>>, None)),
               TextCard(<<"x">>, None)>>]
VTable ==
  [cards |-> <<TableCard(<<"Recent">>, <<<<"date">>, <<"amount">>>>,
                         <<<<<<"2024-01-02">>, <<"-5.0">>>>>>, Some(<<"one row">>))>>]
VMixed ==
  [cards |-> <<MixedCard(<<"s","e","e">>,
                 ChartContent(<<"bar">>, <<"Months">>, <<>>, Some(<<"cap">>)))>>]

ResponseValues == {VText, VQuoted, VEmpty, VChart, VTable, VMixed}

\* a serialization, in a markdown json fence or not, between two pieces of prose
Wrap(pre, json, post, fenced) ==
  pre \o (IF fenced THEN FenceJson \o <<"\n">> ELSE <<>>) \o json
      \o (IF fenced THEN <<"\n">> \o Fence ELSE <<>>) \o post

ProsePieces == {<<"x">>, <<" ">>, <<"{">>, <<"}">>}
Garbage == Concats(ProsePieces, MaxProse)

ProseBefore == {<<>>, <<"H","e","r","e",":","\n">>, <<"{","x","}"," ">>, <<"}"," ">>}
ProseAfter == {<<>>, <<"\n","D","o","n","e",".">>, <<" ","{","x","}">>, <<" ","{">>}

ResponseTexts ==
  {ResponseDataToString(VText),
   Wrap(<<"H","e","r","e",":","\n">>, ResponseDataToString(VChart), <<>>, TRUE),
   ResponseDataToString(VTable),
   ResponseDataToString(VMixed),
   ResponseDataToString(VEmpty),
   <<"s","o","r","r","y">>,
   <<"}"," ","{">>}

SerQueryAnalysis(a) ==
  JObj(<< <<<<"needs_data">>, JBool(a.needs_data)>>,
          <<<<"sql_query">>, IF a.sql_query.some THEN JStr(a.sql_query.v) ELSE JNull>>,
          <<<<"query_type">>, JStr(a.query_type)>> >>)

QueryAnalysisToString(a) == ToJson(SerQueryAnalysis(a))

Select1 == <<"S","E","L","E","C","T"," ","1">>

\* what the chat model may answer to ANALYZE
AnalyzeTexts ==
  {QueryAnalysisToString([needs_data |-> FALSE, sql_query |-> None,
                          query_type |-> <<"greeting">>]),
   Wrap(<<>>, QueryAnalysisToString([needs_data |-> TRUE, sql_query |-> Some(Select1),
                                     query_type |-> <<"data_query">>]), <<>>, TRUE),
   QueryAnalysisToString([needs_data |-> TRUE, sql_query |-> None,
                          query_type |-> <<"data_query">>]),
   QueryAnalysisToString([needs_data |-> TRUE, sql_query |-> Some(DeleteFromLedger),
                          query_type |-> <<"data_query">>]),
   QueryAnalysisToString([needs_data |-> FALSE, sql_query |-> Some(Select1),
                          query_type |-> <<"advice">>]),
   <<"h","i">>,
   <<"}"," ","{">>}

\* a chat call fails, or answers with a text
LlmAnswers(texts) == {[ok |-> FALSE]} \cup {[ok |-> TRUE, text |-> t] : t \in texts}

Questions == {<<"hi">>, <<"how much did I spend on dining?">>}

(***************************************************************************)
(* State                                                                   *)
(***************************************************************************)
Procs == {"p1", "p2"}

NoSession == 0

Idle == [pc |-> "idle"]

NoResult == [kind |-> "none"]

Row(session, role, content) == [session |-> session, role |-> role, content |-> content]

\* What earlier commands may have left behind: nothing; a session that is
\* current, without or with an earlier turn; an older session and a current
\* one; a cleared pointer whose new session could not be created.
PriorStates ==
  {[current |-> NoSession, sessions |-> {}, messages |-> <<>>],
   [current |-> 1, sessions |-> {1}, messages |-> <<>>],
   [current |-> 1, sessions |-> {1},
    messages |-> <<Row(1, "user", <<"hi">>), Row(1, "assistant", <<"Hello!">>)>>],
   [current |-> 2, sessions |-> {1, 2},
    messages |-> <<Row(1, "user", <<"hi">>), Row(1, "assistant", <<"Hello!">>),
                   Row(2, "user", <<"hi again">>)>>],
   [current |-> NoSession, sessions |-> {1},
    messages |-> <<Row(1, "user", <<"hi">>)>>]}

PipeInit ==
  /\ \E prior \in PriorStates :
       /\ current = prior.current
       /\ sessions = prior.sessions
       /\ messages = prior.messages
  /\ provider \in BOOLEAN
  /\ pc = [p \in Procs |-> "idle"]
  /\ question = [p \in Procs |-> <<>>]
  /\ history = [p \in Procs |-> <<>>]
  /\ analysis = [p \in Procs |-> None]
  /\ storeAns = [p \in Procs |-> None]
  /\ llmText = [p \in Procs |-> None]
  /\ result = [p \in Procs |-> NoResult]
  /\ path = [p \in Procs |-> "none"]
  /\ llmCalls = [p \in Procs |-> <<>>]
  /\ executed = [p \in Procs |-> <<>>]
  /\ prepared = [p \in Procs |-> <<>>]
  /\ saves = [p \in Procs |-> <<>>]

\* database.rs init_database, lines 220-225: the default account; no entry
DefaultAccountId == <<"default">>

BookInit ==
  [accounts |-> {[id |-> DefaultAccountId, is_default |-> 1]}, ledger |-> <<>>,
   n |-> 0, last |-> [name |-> "none"]]

UnitsIdle == gate = Idle /\ parser = Idle /\ chunker = Idle /\ conv = Idle
  /\ builder = Idle /\ client = Idle /\ book = BookInit

\* the process has just started: no pointer, an empty store, a provider set
InitFresh == PipeInit /\ provider /\ current = NoSession /\ sessions = {} /\ UnitsIdle

(***************************************************************************)
(* execute_query called on its own                                         *)
(***************************************************************************)
ExecuteQueryCall ==
  /\ gate.pc = "idle"
  /\ \E sql \in SqlInputs, st \in StoreAnswers :
       gate' = [pc |-> "done", sql |-> sql, store |-> st,
                res |-> execute_query(st, sql)]
  /\ UNCHANGED <<pipeVars, parser, chunker, builder, client, book>>

NextGate == ExecuteQueryCall

SpecGate == InitFresh /\ [][NextGate]_vars

(***************************************************************************)
(* parse_llm_response called on its own: on arbitrary text, and on the     *)
(* serialization of a value, fenced or not, inside prose                   *)
(***************************************************************************)
ParseGarbage(text) ==
  /\ parser.pc = "idle"
  /\ parser' = [pc |-> "done", text |-> text, origin |-> None,
                out |-> parse_llm_response(text)]
  /\ UNCHANGED <<pipeVars, gate, chunker, builder, client, book>>

ParseWrapped(v, pre, post, fenced) ==
  /\ parser.pc = "idle"
  /\ LET text == Wrap(pre, ResponseDataToString(v), post, fenced) IN
     parser' = [pc |-> "done", text |-> text,
                origin |-> Some([v |-> v, pre |-> pre, post |-> post, fenced |-> fenced]),
                out |-> parse_llm_response(text)]
  /\ UNCHANGED <<pipeVars, gate, chunker, builder, client, book>>

NextParse ==
  \/ \E text \in Garbage : ParseGarbage(text)
  \/ \E v \in ResponseValues, pre \in ProseBefore, post \in ProseAfter,
        fenced \in BOOLEAN : ParseWrapped(v, pre, post, fenced)

SpecParse == InitFresh /\ [][NextParse]_vars

(***************************************************************************)
(* parse_pdf_statement_chunked (llm.rs lines 862-920), one step per await  *)
(***************************************************************************)
\* what the file turns out to be: unreadable, no PDF, or a PDF of n pages
Files ==
  {[read |-> FALSE, pdf |-> FALSE, pages |-> 0],
   [read |-> TRUE, pdf |-> FALSE, pages |-> 0]}
  \cup [read : {TRUE}, pdf : {TRUE}, pages : 0..MaxPages]

\* a vision call fails, or answers with a text
VisionAnswers == {[ok |-> FALSE]} \cup {[ok |-> TRUE, text |-> t] : t \in ChunkTexts}

\* LLMProvider.provider_type (models.rs 127): the kinds call_llm knows, and
\* one it does not
ProviderKinds ==
  {"anthropic", "openai", "openrouter", "lmstudio", "ollama", "google", "other"}

\* call_llm, lines 48-55: the adapter a kind is routed to
text_adapter(kind) ==
  CASE kind = "anthropic" -> "call_anthropic"
    [] kind \in {"openai", "openrouter", "lmstudio"} -> "call_openai_compatible"
    [] kind = "ollama" -> "call_ollama"
    [] kind = "google" -> "call_google"
    [] OTHER -> "none"

\* call_llm_with_vision, lines 79-83: the adapter a kind is routed to
vision_adapter(kind) ==
  CASE kind = "anthropic" -> "call_anthropic_vision"
    [] kind \in {"openai", "openrouter"} -> "call_openai_vision"
    [] OTHER -> "none"

\* call_llm_with_vision (lines 68-90) for a provider of this kind, where ans
\* is what the provider answers to a request: the adapter it sent a request
\* through, if any, and its Result
call_llm_with_vision(kind, ans) ==
  IF vision_adapter(kind) = "none"
  THEN [ok |-> FALSE, request |-> "none",
        e |-> <<"Vision not supported for provider: ", kind>>]
  ELSE IF ans.ok
  THEN [ok |-> TRUE, request |-> vision_adapter(kind), text |-> ans.text]
  ELSE [ok |-> FALSE, request |-> vision_adapter(kind), e |-> <<"vision call failed">>]

\* all_transactions.extend(chunk_transactions), line 915
extend_dedup(all_transactions, chunk_transactions) ==
  all_transactions
    \o SelectSeq(chunk_transactions,
                 LAMBDA t : \A i \in 1..Len(all_transactions) : all_transactions[i] # t)

extend(all_transactions, chunk_transactions) == all_transactions \o chunk_transactions

\* if page_count <= 3, line 880
WholeDocumentBelow3(page_count) == page_count < 3

WholeDocument(page_count) == page_count <= 3

\* parse_single_page_statement (lines 1026-1094) on the whole file: it reads
\* the file again, calls call_llm_with_vision once, which returns ans, and
\* parses the text
parse_single_page_statement(rereadOk, ans) ==
  IF ~ rereadOk THEN Failed(<<"Failed to read file">>)
  ELSE IF ~ ans.ok THEN Failed(ans.e)
  ELSE parse_transactions(ans.text)

\* the call of call_llm_with_vision for one chunk, which returned ans, as the
\* run records it
ChunkCall(s, e, ans, r) ==
  [kind |-> "chunk", start |-> s, end |-> e, ok |-> ans.ok,
   request |-> ans.request,
   out |-> IF r.kind = "ok" THEN r.v ELSE <<>>]

\* lines 869-883 and 886-890: read, load, count; small PDFs go to
\* parse_single_page_statement
ChunkedStart(file, kind, rereadOk, ans) ==
  /\ chunker.pc = "idle"
  /\ chunker' =
       IF ~ file.read \/ ~ file.pdf
       THEN [pc |-> "done", file |-> file, provider_type |-> kind,
             page_count |-> 0, chunk_idx |-> 0,
             windows |-> <<>>, in_flight |-> <<>>, calls |-> <<>>,
             all_transactions |-> <<>>,
             result |-> Failed(<<"Failed to read or parse PDF">>)]
       ELSE IF WholeDocument(file.pages)
       THEN [pc |-> "done", file |-> file, provider_type |-> kind,
             page_count |-> file.pages, chunk_idx |-> 0, windows |-> <<>>,
             in_flight |-> <<>>,
             calls |-> IF rereadOk
                       THEN <<[kind |-> "whole", ok |-> ans.ok,
                               request |-> ans.request]>>
                       ELSE <<>>,
             all_transactions |-> <<>>,
             result |-> parse_single_page_statement(rereadOk, ans)]
       ELSE [pc |-> "loop", file |-> file, provider_type |-> kind,
             page_count |-> file.pages, chunk_idx |-> 0, windows |-> <<>>,
             in_flight |-> <<>>, calls |-> <<>>, all_transactions |-> <<>>,
             result |-> NoResult]
  /\ UNCHANGED <<pipeVars, gate, parser, builder, client, book>>

\* an iteration that starts while an earlier call is still awaited
IterationMayStartEager(c) == c.pc \in {"loop", "await"}

\* the for loop of lines 892-916 starts an iteration only when the body of
\* the one before has run to its end
IterationMayStart(c) == c.pc = "loop"

\* the first half of an iteration, lines 893-910: the window, its pages
\* extracted and encoded, parse_statement_chunk called and awaited
ChunkedIssue(extractOk) ==
  /\ IterationMayStart(chunker)
  /\ chunker.chunk_idx < total_chunks(chunker.page_count)
  /\ LET s == start_page(chunker.chunk_idx)
         e == end_page(chunker.chunk_idx, chunker.page_count)
         w == Append(chunker.windows, <<s, e>>)
     IN chunker' =
          IF ~ extractOk
          THEN [chunker EXCEPT !.pc = "done", !.windows = w,
                               !.result = Failed(<<"Failed to save PDF chunk">>)]
          ELSE [chunker EXCEPT !.pc = "await", !.windows = w,
                               !.in_flight = Append(@, <<s, e>>)]
  /\ UNCHANGED <<pipeVars, gate, parser, builder, client, book>>

\* the second half, lines 910-915: the call answers, the answer is parsed,
\* the transactions are appended
ChunkedReceive(ans) ==
  /\ chunker.pc = "await"
  /\ LET s == Head(chunker.in_flight)[1]
         e == Head(chunker.in_flight)[2]
     IN \E r \in {IF ans.ok THEN parse_transactions(ans.text) ELSE Failed(ans.e)} :
        chunker' =
          IF r.kind # "ok"
          THEN [chunker EXCEPT !.pc = "done", !.in_flight = Tail(@),
                               !.calls = Append(@, ChunkCall(s, e, ans, r)),
                               !.result = r]
          ELSE [chunker EXCEPT !.pc = "loop", !.in_flight = Tail(@),
                               !.calls = Append(@, ChunkCall(s, e, ans, r)),
                               !.chunk_idx = @ + 1,
                               !.all_transactions = extend(@, r.v)]
  /\ UNCHANGED <<pipeVars, gate, parser, builder, client, book>>

\* lines 918-919, after the last iteration
ChunkedReturn ==
  /\ chunker.pc = "loop"
  /\ chunker.chunk_idx = total_chunks(chunker.page_count)
  /\ chunker' = [chunker EXCEPT !.pc = "done",
                                !.result = Returned(chunker.all_transactions)]
  /\ UNCHANGED <<pipeVars, gate, parser, builder, client, book>>

NextChunk ==
  \/ \E file \in Files, kind \in ProviderKinds, rereadOk \in BOOLEAN,
        ans \in VisionAnswers :
       ChunkedStart(file, kind, rereadOk, call_llm_with_vision(kind, ans))
  \/ \E extractOk \in BOOLEAN : ChunkedIssue(extractOk)
  \/ \E ans \in VisionAnswers :
       ChunkedReceive(call_llm_with_vision(chunker.provider_type, ans))
  \/ ChunkedReturn

SpecChunk == InitFresh /\ [][NextChunk]_vars

(***************************************************************************)
(* commands.rs  process_query (lines 753-878) and what it calls, one step  *)
(* per lock acquisition, store round trip or LLM call                      *)
(***************************************************************************)
history_limit == 10

NoSessionMsg == <<"No active conversation session">>

\* what the store may answer to save_message: no connection, the INSERT
\* rejected, the INSERT done and the UPDATE rejected, or both done
SaveAnswers == {"conn_err", "insert_err", "update_err", "ok"}

\* save_message writing to the session of the oldest stored message
save_message_pinned(role, content, db) ==
  IF current = NoSession
  THEN [ok |-> FALSE, e |-> NoSessionMsg, rows |-> <<>>]
  ELSE LET row == Row(IF messages = <<>> THEN current ELSE messages[1].session,
                      role, content) IN
       CASE db = "ok" -> [ok |-> TRUE, rows |-> <<row>>]
         [] db = "update_err" -> [ok |-> FALSE, e |-> <<"store error">>, rows |-> <<row>>]
         [] OTHER -> [ok |-> FALSE, e |-> <<"store error">>, rows |-> <<>>]

\* save_message (lines 636-663) under the answer db: the row it inserts, if
\* any, and the Result it returns
save_message(role, content, db) ==
  IF current = NoSession
  THEN [ok |-> FALSE, e |-> NoSessionMsg, rows |-> <<>>]
  ELSE LET row == Row(current, role, content) IN
       CASE db = "ok" -> [ok |-> TRUE, rows |-> <<row>>]
         [] db = "update_err" -> [ok |-> FALSE, e |-> <<"store error">>, rows |-> <<row>>]
         [] OTHER -> [ok |-> FALSE, e |-> <<"store error">>, rows |-> <<>>]

\* the Result of save_message propagated, as save_message(..)? would
AfterSaveChecked(saved, outcome) == IF saved.ok THEN outcome ELSE Failed(saved.e)

\* let _ = save_message(..) (lines 767, 834, 871): the Result is dropped
\* and the invocation goes on to outcome
AfterSave(saved, outcome) == outcome

SaveRecord(role, content, saved) ==
  [role |-> role, content |-> content, session |-> current,
   ok |-> saved.ok, stored |-> saved.rows # <<>>]

\* the limit oldest rows
FirstN(seq, n) == IF Len(seq) <= n THEN seq ELSE SubSeq(seq, 1, n)

\* get_conversation_history (lines 600-633): the limit newest rows of the
\* current session (ORDER BY created_at DESC LIMIT), oldest first
LastN(seq, n) == IF Len(seq) <= n THEN seq ELSE SubSeq(seq, Len(seq) - n + 1, Len(seq))

get_conversation_history(limit, dbOk) ==
  IF current = NoSession THEN Returned(<<>>)
  ELSE IF ~ dbOk THEN Failed(<<"store error">>)
  ELSE LET mine == SelectSeq(messages, LAMBDA m : m.session = current) IN
       Returned(LastN([i \in 1..Len(mine) |->
                         [role |-> mine[i].role, content |-> mine[i].content]],
                      limit))

\* Result::unwrap_or_default on a list, line 763
unwrap_or_default(r) == IF r.kind = "ok" THEN r.v ELSE <<>>

\* the branch chosen by the presence of a statement
BranchOfSql(query_analysis) ==
  IF query_analysis.sql_query.some THEN "execute" ELSE "conv"

\* line 789: the branch taken after ANALYZE
BranchOf(query_analysis) == IF query_analysis.needs_data THEN "execute" ELSE "conv"

\* the invocation p ends with outcome r on branch b
Finish(p, r, b) ==
  /\ pc' = [pc EXCEPT ![p] = "done"]
  /\ result' = [result EXCEPT ![p] = r]
  /\ path' = [path EXCEPT ![p] = b]

\* the command is invoked
PQ_Start(p, q) ==
  /\ pc[p] = "idle"
  /\ pc' = [pc EXCEPT ![p] = "session"]
  /\ question' = [question EXCEPT ![p] = q]
  /\ history' = [history EXCEPT ![p] = <<>>]
  /\ analysis' = [analysis EXCEPT ![p] = None]
  /\ storeAns' = [storeAns EXCEPT ![p] = None]
  /\ llmText' = [llmText EXCEPT ![p] = None]
  /\ result' = [result EXCEPT ![p] = NoResult]
  /\ path' = [path EXCEPT ![p] = "none"]
  /\ llmCalls' = [llmCalls EXCEPT ![p] = <<>>]
  /\ executed' = [executed EXCEPT ![p] = <<>>]
  /\ prepared' = [prepared EXCEPT ![p] = <<>>]
  /\ saves' = [saves EXCEPT ![p] = <<>>]
  /\ UNCHANGED <<current, sessions, messages, provider, gate, parser, chunker, conv, builder, client, book>>

\* line 760, get_or_create_session lines 575-580: the pointer is read
PQ_SessionCheck(p) ==
  /\ pc[p] = "session"
  /\ pc' = [pc EXCEPT ![p] = IF current # NoSession THEN "history" ELSE "create"]
  /\ UNCHANGED <<current, sessions, messages, provider, question, history,
                 analysis, storeAns, llmText, result, path, llmCalls,
                 executed, prepared, saves, gate, parser, chunker, conv, builder, client, book>>

\* start_conversation (lines 552-569) called from get_or_create_session;
\* its Result is dropped at line 760
PQ_StartConversation(p, dbOk) ==
  /\ pc[p] = "create"
  /\ LET session_id == Cardinality(sessions) + 1 IN
     IF dbOk
     THEN sessions' = sessions \cup {session_id} /\ current' = session_id
     ELSE UNCHANGED <<sessions, current>>
  /\ pc' = [pc EXCEPT ![p] = "history"]
  /\ UNCHANGED <<messages, provider, question, history, analysis, storeAns,
                 llmText, result, path, llmCalls, executed, prepared,
                 saves, gate, parser, chunker, conv, builder, client, book>>

\* line 763
PQ_History(p, dbOk) ==
  /\ pc[p] = "history"
  /\ history' = [history EXCEPT ![p] =
                   unwrap_or_default(get_conversation_history(history_limit, dbOk))]
  /\ pc' = [pc EXCEPT ![p] = "saveUser"]
  /\ UNCHANGED <<current, sessions, messages, provider, question, analysis,
                 storeAns, llmText, result, path, llmCalls, executed,
                 prepared, saves, gate, parser, chunker, conv, builder, client, book>>

\* line 767
PQ_SaveUser(p, db) ==
  /\ pc[p] = "saveUser"
  /\ LET saved == save_message("user", question[p], db)
         outcome == AfterSave(saved, NoResult)
     IN /\ messages' = messages \o saved.rows
        /\ saves' = [saves EXCEPT ![p] = Append(@, SaveRecord("user", question[p], saved))]
        /\ IF outcome.kind = "none"
           THEN pc' = [pc EXCEPT ![p] = "settings"] /\ UNCHANGED <<result, path>>
           ELSE Finish(p, outcome, "none")
  /\ UNCHANGED <<current, sessions, provider, question, history, analysis,
                 storeAns, llmText, llmCalls, executed, prepared,
                 gate, parser, chunker, conv, builder, client, book>>

\* lines 769-773: get_settings, then the provider it holds
PQ_Settings(p, dbOk) ==
  /\ pc[p] = "settings"
  /\ IF ~ dbOk THEN Finish(p, Failed(<<"store error">>), "none")
     ELSE IF ~ provider
     THEN Finish(p, Failed(<<"No LLM provider configured">>), "none")
     ELSE pc' = [pc EXCEPT ![p] = "analyze"] /\ UNCHANGED <<result, path>>
  /\ UNCHANGED <<current, sessions, messages, provider, question, history,
                 analysis, storeAns, llmText, llmCalls, executed,
                 prepared, saves, gate, parser, chunker, conv, builder, client, book>>

\* analyze_query (llm.rs 1147-1332), its LLM call answering ans
analyze_query(ans) ==
  IF ans.ok THEN parse_analysis(ans.text) ELSE Failed(<<"llm error">>)

\* format_query_results (llm.rs 1335-1397) and process_conversational_query
\* (llm.rs 1400-1449), their LLM call answering ans
format_query_results(ans) ==
  IF ans.ok THEN parse_llm_response(ans.text) ELSE Failed(<<"llm error">>)

process_conversational_query(ans) ==
  IF ans.ok THEN parse_llm_response(ans.text) ELSE Failed(<<"llm error">>)

\* lines 779-781
PQ_Analyze(p, ans) ==
  /\ pc[p] = "analyze"
  /\ llmCalls' = [llmCalls EXCEPT ![p] = Append(@, "analyze")]
  /\ \E r \in {analyze_query(ans)} :
     IF r.kind = "ok"
     THEN /\ analysis' = [analysis EXCEPT ![p] = Some(r.v)]
          /\ pc' = [pc EXCEPT ![p] = BranchOf(r.v)]
          /\ UNCHANGED <<result, path>>
     ELSE Finish(p, r, "none") /\ UNCHANGED analysis
  /\ UNCHANGED <<current, sessions, messages, provider, question, history,
                 storeAns, llmText, executed, prepared, saves,
                 gate, parser, chunker, conv, builder, client, book>>

\* lines 790-818 and 841-854: the connection, execute_query, the empty
\* result and the SQL error
PQ_Execute(p, connOk, st) ==
  /\ pc[p] = "execute"
  /\ LET sql == IF analysis[p].v.sql_query.some THEN analysis[p].v.sql_query.v ELSE <<>>
     IN \E query_result \in {execute_query(st, sql)} :
        IF ~ connOk
        THEN /\ Finish(p, Failed(<<"store error">>), "none")
             /\ UNCHANGED <<executed, prepared, storeAns>>
        ELSE /\ executed' = [executed EXCEPT ![p] = Append(@, sql)]
             /\ prepared' = [prepared EXCEPT ![p] = @ \o query_result.prepared]
             /\ storeAns' = [storeAns EXCEPT ![p] =
                               IF query_result.prepared # <<>> THEN Some(st) ELSE None]
             /\ IF query_result.ok
                THEN IF RowCountOf(query_result.v) = 0
                     THEN Finish(p, Returned(EmptyResultResponse), "empty")
                     ELSE /\ pc' = [pc EXCEPT ![p] = "format"]
                          /\ UNCHANGED <<result, path>>
                ELSE Finish(p, Returned(SqlErrorResponse(query_result.e, sql)), "sqlerr")
  /\ UNCHANGED <<current, sessions, messages, provider, question, history,
                 analysis, llmText, llmCalls, saves, gate, parser, chunker, conv, builder, client, book>>

\* the tail shared by lines 822-839 (FORMAT) and 859-876 (CONVERSATIONAL):
\* the LLM call answering ans, parse_llm_response, the assistant message
Respond(p, kind, ans, r, db) ==
  /\ llmCalls' = [llmCalls EXCEPT ![p] = Append(@, kind)]
  /\ llmText' = [llmText EXCEPT ![p] = IF ans.ok THEN Some(ans.text) ELSE None]
  /\ IF r.kind = "ok" /\ r.v.cards # <<>>
     THEN LET response_text == Summary(r.v.cards[1])
              saved == save_message("assistant", response_text, db)
          IN /\ messages' = messages \o saved.rows
             /\ saves' = [saves EXCEPT ![p] =
                            Append(@, SaveRecord("assistant", response_text, saved))]
             /\ Finish(p, AfterSave(saved, r), kind)
     ELSE /\ db = "ok"
          /\ Finish(p, r, IF r.kind = "ok" THEN kind ELSE "none")
          /\ UNCHANGED <<messages, saves>>
  /\ UNCHANGED <<current, sessions, provider, question, history, analysis,
                 storeAns, executed, prepared, gate, parser, chunker, conv, builder, client, book>>

PQ_Format(p, ans, db) ==
  pc[p] = "format" /\ Respond(p, "format", ans, format_query_results(ans), db)

PQ_Conversational(p, ans, db) ==
  pc[p] = "conv" /\ Respond(p, "conv", ans, process_conversational_query(ans), db)

Init == PipeInit /\ UnitsIdle

\* one invocation at a time
Sequential == {"p1"}

Next ==
  \E p \in Sequential :
    \/ \E q \in Questions : PQ_Start(p, q)
    \/ PQ_SessionCheck(p)
    \/ \E dbOk \in BOOLEAN : PQ_StartConversation(p, dbOk)
    \/ \E dbOk \in BOOLEAN : PQ_History(p, dbOk)
    \/ \E db \in SaveAnswers : PQ_SaveUser(p, db)
    \/ \E dbOk \in BOOLEAN : PQ_Settings(p, dbOk)
    \/ \E ans \in LlmAnswers(AnalyzeTexts) : PQ_Analyze(p, ans)
    \/ \E connOk \in BOOLEAN, st \in StoreAnswers : PQ_Execute(p, connOk, st)
    \/ \E ans \in LlmAnswers(ResponseTexts), db \in SaveAnswers : PQ_Format(p, ans, db)
    \/ \E ans \in LlmAnswers(ResponseTexts), db \in SaveAnswers : PQ_Conversational(p, ans, db)

Spec == Init /\ [][Next]_vars

(***************************************************************************)
(* commands.rs  the session commands start_conversation (552-569),         *)
(* get_or_create_session (573-584), clear_conversation (588-597), and      *)
(* get_conversation_history and save_message called on their own; one step *)
(* per lock acquisition or store round trip                                *)
(***************************************************************************)
\* one of the three session commands has returned, with Ok or with Err
Touched == conv.pc # "idle" /\ conv.touched

ConvReady == conv.pc \in {"idle", "done"}

Invoked(name) ==
  [pc |-> "insert", name |-> name, before |-> current, sessionsBefore |-> sessions,
   touched |-> Touched, session_id |-> NoSession, limit |-> 0, ret |-> NoResult]

\* what the store may answer to start_conversation
CreateAnswers == {"conn_err", "insert_err", "ok"}

\* lines 575-580 creating a session whatever the pointer holds
AfterSessionCheckAlways(cur) == "insert"

\* lines 575-580: return the id the pointer holds, or go on to
\* start_conversation
AfterSessionCheck(cur) == IF cur # NoSession THEN "done" ELSE "insert"

\* start_conversation is invoked
StartConversationCall ==
  /\ ConvReady
  /\ Cardinality(sessions) < MaxSessions
  /\ conv' = Invoked("start_conversation")
  /\ UNCHANGED <<current, sessions, messages, queryVars, gate, parser, chunker, builder, client, book>>

\* get_or_create_session is invoked and reads the pointer, lines 575-580
GetOrCreateSessionCall ==
  /\ ConvReady
  /\ current # NoSession \/ Cardinality(sessions) < MaxSessions
  /\ conv' =
       IF AfterSessionCheck(current) = "done"
       THEN [Invoked("get_or_create_session") EXCEPT
               !.pc = "done", !.touched = TRUE, !.ret = Returned(current)]
       ELSE Invoked("get_or_create_session")
  /\ UNCHANGED <<current, sessions, messages, queryVars, gate, parser, chunker, builder, client, book>>

\* clear_conversation is invoked and empties the pointer, lines 590-593
ClearConversationCall ==
  /\ ConvReady
  /\ Cardinality(sessions) < MaxSessions
  /\ conv' = Invoked("clear_conversation")
  /\ current' = NoSession
  /\ UNCHANGED <<sessions, messages, queryVars, gate, parser, chunker, builder, client, book>>

\* start_conversation lines 553-561: the connection and the INSERT of a row
\* with a new uuid; either may fail and the command returns Err
StartInsert(db) ==
  /\ conv.pc = "insert"
  /\ LET session_id == Cardinality(sessions) + 1 IN
     IF db = "ok"
     THEN /\ sessions' = sessions \cup {session_id}
          /\ conv' = [conv EXCEPT !.pc = "set", !.session_id = session_id]
     ELSE /\ conv' = [conv EXCEPT !.pc = "done", !.touched = TRUE,
                                  !.ret = Failed(<<"store error">>)]
          /\ UNCHANGED sessions
  /\ UNCHANGED <<current, messages, queryVars, gate, parser, chunker, builder, client, book>>

\* start_conversation lines 564-568: the pointer is set to the new id
StartSetCurrent ==
  /\ conv.pc = "set"
  /\ current' = conv.session_id
  /\ conv' = [conv EXCEPT !.pc = "done", !.touched = TRUE,
                          !.ret = Returned(conv.session_id)]
  /\ UNCHANGED <<sessions, messages, queryVars, gate, parser, chunker, builder, client, book>>

\* get_conversation_history(limit) is called
GetHistoryCall(limit, dbOk) ==
  /\ ConvReady
  /\ conv' = [Invoked("get_conversation_history") EXCEPT
                !.pc = "done", !.limit = limit,
                !.ret = get_conversation_history(limit, dbOk)]
  /\ UNCHANGED <<current, sessions, messages, queryVars, gate, parser, chunker, builder, client, book>>

\* save_message(role, content) is called; the content is the number of the
\* message, so that no two messages are alike
SaveMessageCall(role, db) ==
  /\ ConvReady
  /\ Len(messages) < MaxMessages
  /\ \E saved \in {save_message(role, NatToLex(Len(messages) + 1), db)} :
       /\ messages' = messages \o saved.rows
       /\ conv' = [Invoked("save_message") EXCEPT
                     !.pc = "done",
                     !.ret = IF saved.ok THEN Returned(saved.rows) ELSE Failed(saved.e)]
  /\ UNCHANGED <<current, sessions, queryVars, gate, parser, chunker, builder, client, book>>

SessionCommandStep ==
  \/ StartConversationCall
  \/ GetOrCreateSessionCall
  \/ ClearConversationCall
  \/ \E db \in CreateAnswers : StartInsert(db)
  \/ StartSetCurrent

NextConv ==
  \/ SessionCommandStep
  \/ \E limit \in 0..MaxMessages, dbOk \in BOOLEAN : GetHistoryCall(limit, dbOk)
  \/ \E role \in {"user", "assistant"}, db \in SaveAnswers : SaveMessageCall(role, db)

SpecConv == InitFresh /\ [][NextConv]_vars

\* process_query running while the frontend calls session commands; the
\* chat model answers ANALYZE with a greeting or a data query and the later
\* call with a text card, the store yields one row or none
NextRace ==
  \/ PQ_Start("p1", <<"hi">>)
  \/ PQ_SessionCheck("p1")
  \/ \E dbOk \in BOOLEAN : PQ_StartConversation("p1", dbOk)
  \/ \E dbOk \in BOOLEAN : PQ_History("p1", dbOk)
  \/ \E db \in SaveAnswers : PQ_SaveUser("p1", db)
  \/ \E dbOk \in BOOLEAN : PQ_Settings("p1", dbOk)
  \/ \E ans \in LlmAnswers(
          {QueryAnalysisToString([needs_data |-> FALSE, sql_query |-> None,
                                  query_type |-> <<"greeting">>]),
           QueryAnalysisToString([needs_data |-> TRUE, sql_query |-> Some(Select1),
                                  query_type |-> <<"data_query">>])}) :
       PQ_Analyze("p1", ans)
  \/ \E st \in [prepare : {"ok"}, query : {"ok"}, rows : {0, 1}, stepErr : {FALSE}] :
       PQ_Execute("p1", TRUE, st)
  \/ \E ans \in LlmAnswers({ResponseDataToString(VText)}), db \in SaveAnswers : PQ_Format("p1", ans, db)
  \/ \E ans \in LlmAnswers({ResponseDataToString(VText)}), db \in SaveAnswers :
       PQ_Conversational("p1", ans, db)
  \/ SessionCommandStep

SpecRace == Init /\ [][NextRace]_vars

(***************************************************************************)
(* llm.rs  build_conversation_context (lines 17-36), called on its own.    *)
(* A text is a sequence of characters; EAcute stands for one character     *)
(* that UTF-8 encodes in two bytes, every other character takes one byte.  *)
(***************************************************************************)
take_limit == 10

truncate_at == 500

EAcute == "U+00E9"

\* str::len: the length in bytes
ByteLen(s) == Len(s) + Cardinality({i \in 1..Len(s) : s[i] = EAcute})

\* &s[..n] for n <= s.len(): the characters that make up the first n bytes;
\* a panic when byte n is not the first byte of a character
SliceTo(s, n) ==
  LET ks == {k \in 0..Len(s) : ByteLen(SubSeq(s, 1, k)) = n} IN
  IF ks = {} THEN Panicked ELSE Returned(SubSeq(s, 1, CHOOSE k \in ks : TRUE))

Ellipsis(r) == IF r.kind = "ok" THEN Returned(r.v \o <<".", ".", ".">>) ELSE r

\* lines 27-31
Truncated(content) ==
  IF ByteLen(content) > truncate_at THEN Ellipsis(SliceTo(content, truncate_at))
  ELSE Returned(content)

ContextHeader == <<"\n\n## Recent Conversation History\n">>
ContextFooter == <<"\n---\nCurrent message:\n">>

\* lines 25 and 32
ContextLine(role, content) ==
  <<IF role = "user" THEN "User" ELSE "Yuki", ":", " ">> \o content \o <<"\n">>

ContextOf(hist, bodies) ==
  IF \E i \in 1..Len(bodies) : bodies[i].kind = "panic" THEN Panicked
  ELSE Returned(ContextHeader
                  \o Concat([i \in 1..Len(bodies) |->
                               ContextLine(hist[i].role, bodies[i].v)])
                  \o ContextFooter)

build_conversation_context(hist) ==
  IF hist = <<>> THEN Returned(<<>>)
  ELSE ContextOf(hist,
                 [i \in 1..Min(take_limit, Len(hist)) |-> Truncated(hist[i].content)])

\* message bodies: short, of 500 and of 501 one-byte characters, of 300
\* two-byte characters, and with a two-byte character across byte 500
Xs(n) == [i \in 1..n |-> "x"]

Bodies ==
  {<<"h", "i">>, Xs(truncate_at), Xs(truncate_at + 1),
   [i \in 1..300 |-> EAcute],
   Xs(truncate_at - 1) \o <<EAcute, "!">>}

HistoryMessages == [role : {"user", "assistant"}, content : Bodies]

Numbered(n) ==
  [i \in 1..n |-> [role |-> IF i % 2 = 1 THEN "user" ELSE "assistant",
                   content |-> NatToLex(i)]]

\* histories of up to two messages with every body, and longer ones of
\* short numbered messages
Histories ==
  UNION {[1..k -> HistoryMessages] : k \in 0..2}
    \cup {Numbered(n) : n \in 3..MaxHistory}

BuildContextCall(hist) ==
  /\ builder.pc = "idle"
  /\ builder' = [pc |-> "done", history |-> hist,
                 context |-> build_conversation_context(hist)]
  /\ UNCHANGED <<pipeVars, gate, parser, chunker, client, book>>

NextContext == \E hist \in Histories : BuildContextCall(hist)

SpecContext == InitFresh /\ [][NextContext]_vars

(***************************************************************************)
(* llm.rs  call_llm (lines 39-65) and its adapters call_anthropic          *)
(* (255-305), call_openai_compatible (307-358), call_ollama (360-391) and  *)
(* call_google (393-452), called on their own.  http is what the network   *)
(* does to the request: send() fails, or a status and a body come back.    *)
(***************************************************************************)
Key(k) == [key |-> k]
Nth(n) == [idx |-> n]

\* serde_json::Value indexing, value[k]: Null where there is no such member
Idx(j, k) ==
  IF "key" \in DOMAIN k
  THEN IF j.t = "obj" /\ k.key \in Keys(j) THEN Member(j, k.key) ELSE JNull
  ELSE IF j.t = "arr" /\ k.idx < Len(j.items) THEN j.items[k.idx + 1] ELSE JNull

RECURSIVE PathGet(_, _)
PathGet(j, ks) ==
  IF ks = <<>> THEN j ELSE PathGet(Idx(j, Head(ks)), Tail(ks))

\* Value::as_str
AsStr(j) == IF j.t = "str" THEN Some(j.s) ELSE None

\* what differs between the four adapters: the name in their errors, whether
\* they refuse to run without an API key, where the text is in the body
Adapter(name) ==
  CASE name = "call_anthropic" ->
         [label |-> "Anthropic", needs_key |-> TRUE,
          text |-> <<Key(<<"content">>), Nth(0), Key(<<"text">>)>>]
    [] name = "call_openai_compatible" ->
         [label |-> "OpenAI", needs_key |-> FALSE,
          text |-> <<Key(<<"choices">>), Nth(0), Key(<<"message">>), Key(<<"content">>)>>]
    [] name = "call_ollama" ->
         [label |-> "Ollama", needs_key |-> FALSE, text |-> <<Key(<<"response">>)>>]
    [] name = "call_google" ->
         [label |-> "Google", needs_key |-> TRUE,
          text |-> <<Key(<<"candidates">>), Nth(0), Key(<<"content">>),
                     Key(<<"parts">>), Nth(0), Key(<<"text">>)>>]

\* a send repeated once after a server error
SendsWithRetry(http) == IF http.sent /\ http.status >= 500 THEN 2 ELSE 1

\* .send().await? (lines 282-290, 343, 374-380, 431-440): one request
Sends(http) == 1

\* lines 295-300, 347-352, 385-387, 445-450: the error for a status that is
\* not a success
StatusError(a, response_body) ==
  IF a.label = "Ollama"
  THEN Failed(<<"Ollama error: ", response_body>>)
  ELSE Failed(<<a.label, " API error: ">>
                \o (IF AsStr(PathGet(response_body, <<Key(<<"error">>), Key(<<"message">>)>>)).some
                    THEN AsStr(PathGet(response_body, <<Key(<<"error">>), Key(<<"message">>)>>)).v
                    ELSE <<"Unknown error">>))

\* lines 302-305 and alike: the text of a success
TextOf(a, text) ==
  IF text.some THEN Returned(text.v) ELSE Failed(<<"Invalid response from ", a.label>>)

\* after response.json().await? (lines 293, 345, 383, 443)
AfterJson(a, status, response_body) ==
  IF ~ response_body.ok THEN Failed(<<"error decoding response body">>)
  ELSE IF status < 200 \/ status > 299 THEN StatusError(a, response_body.v)
  ELSE TextOf(a, AsStr(PathGet(response_body.v, a.text)))

\* one adapter: the number of requests it sent and its Result
call_adapter(a, has_key, http) ==
  IF a.needs_key /\ ~ has_key
  THEN [requests |-> 0, result |-> Failed(<<"API key required for ", a.label>>)]
  ELSE IF ~ http.sent
  THEN [requests |-> Sends(http), result |-> Failed(<<"error sending request">>)]
  ELSE [requests |-> Sends(http),
        result |-> AfterJson(a, http.status, JsonFromStr(http.body))]

\* call_llm, lines 48-55
call_llm(kind, has_key, http) ==
  IF text_adapter(kind) = "none"
  THEN [requests |-> 0, result |-> Failed(<<"Unsupported provider: ", kind>>)]
  ELSE call_adapter(Adapter(text_adapter(kind)), has_key, http)

\* bodies: no JSON, an error with and without a message, and the successes
\* of the four backends
HttpBodies ==
  {<<"<", "h", "t", "m", "l", ">">>,
   ToJson(JObj(<< <<<<"error">>, JObj(<< <<<<"message">>, JStr(<<"boom">>)>> >>)>> >>)),
   ToJson(JObj(<<>>)),
   ToJson(JObj(<< <<<<"content">>,
                    JArr(<<JObj(<< <<<<"text">>, JStr(<<"hi">>)>> >>)>>)>> >>)),
   ToJson(JObj(<< <<<<"choices">>,
                    JArr(<<JObj(<< <<<<"message">>,
                                     JObj(<< <<<<"content">>, JStr(<<"hi">>)>> >>)>> >>)>>)>> >>)),
   ToJson(JObj(<< <<<<"response">>, JStr(<<"hi">>)>> >>)),
   ToJson(JObj(<< <<<<"candidates">>,
                    JArr(<<JObj(<< <<<<"content">>,
                                     JObj(<< <<<<"parts">>,
                                              JArr(<<JObj(<< <<<<"text">>, JStr(<<"hi">>)>> >>)>>)>> >>)>> >>)>>)>> >>))}

HttpAnswers ==
  {[sent |-> FALSE]} \cup [sent : {TRUE}, status : {200, 401, 502}, body : HttpBodies]

CallLlm(kind, has_key, http) ==
  /\ client.pc = "idle"
  /\ client' = [pc |-> "done", kind |-> kind, has_key |-> has_key, http |-> http,
                out |-> call_llm(kind, has_key, http)]
  /\ UNCHANGED <<pipeVars, gate, parser, chunker, builder, book>>

NextClient ==
  \E kind \in ProviderKinds, has_key \in BOOLEAN, http \in HttpAnswers :
    CallLlm(kind, has_key, http)

SpecClient == InitFresh /\ [][NextClient]_vars

(***************************************************************************)
(* commands.rs  add_account (697-715), delete_account (718-746) and        *)
(* save_ledger_entry (257-281) on the accounts and ledger tables of        *)
(* database.rs (55-63, 69-85).  book.last is the command that returned     *)
(* last, with the tables as it found them.                                 *)
(***************************************************************************)
\* uuid::Uuid::new_v4(), line 703: an id no row has had
Uuid(n) == <<"uuid", n>>

AccountIds == {DefaultAccountId} \cup {Uuid(n) : n \in 1..MaxAccounts}

AccountRow(b, account_id) == {a \in b.accounts : a.id = account_id}

\* what the store may answer to delete_account: no connection, the UPDATE
\* rejected, the UPDATE done and the DELETE rejected, or both done
DeleteAnswers == {"conn_err", "update_err", "delete_err", "ok"}

\* a DELETE that is not preceded by the UPDATE of the ledger
ReassignNothing(ledger, account_id) == ledger

\* UPDATE ledger SET account_id = 'default' WHERE account_id = ?1, 735-739
Reassign(ledger, account_id) ==
  [i \in DOMAIN ledger |->
     IF ledger[i] = Some(account_id) THEN Some(DefaultAccountId) ELSE ledger[i]]

\* the tables and the Result after the two statements of lines 735-745
AfterDefaultCheck(b, account_id, db, reassigned) ==
  IF db = "update_err"
  THEN [accounts |-> b.accounts, ledger |-> b.ledger, ret |-> Failed(<<"store error">>)]
  ELSE IF db = "delete_err"
  THEN [accounts |-> b.accounts, ledger |-> reassigned, ret |-> Failed(<<"store error">>)]
  ELSE [accounts |-> b.accounts \ AccountRow(b, account_id), ledger |-> reassigned,
        ret |-> Returned(<<>>)]

delete_account(b, account_id, db) ==
  IF db = "conn_err"
  THEN [accounts |-> b.accounts, ledger |-> b.ledger, ret |-> Failed(<<"store error">>)]
  ELSE IF AccountRow(b, account_id) = {}
  THEN [accounts |-> b.accounts, ledger |-> b.ledger,
        ret |-> Failed(<<"Query returned no rows">>)]
  ELSE IF \E a \in AccountRow(b, account_id) : a.is_default = 1
  THEN [accounts |-> b.accounts, ledger |-> b.ledger,
        ret |-> Failed(<<"Cannot delete the default account">>)]
  ELSE AfterDefaultCheck(b, account_id, db, Reassign(b.ledger, account_id))

AddAccount(dbOk) ==
  /\ book.n < MaxAccounts
  /\ book' =
       IF dbOk
       THEN [accounts |-> book.accounts \cup {[id |-> Uuid(book.n + 1), is_default |-> 0]},
             ledger |-> book.ledger, n |-> book.n + 1,
             last |-> [name |-> "add_account", account_id |-> Uuid(book.n + 1),
                       accounts |-> book.accounts, ledger |-> book.ledger,
                       ret |-> Returned(Uuid(book.n + 1))]]
       ELSE [book EXCEPT !.last =
               [name |-> "add_account", account_id |-> Uuid(book.n + 1),
                accounts |-> book.accounts, ledger |-> book.ledger,
                ret |-> Failed(<<"store error">>)]]
  /\ UNCHANGED <<pipeVars, gate, parser, chunker, builder, client>>

DeleteAccount(account_id, db) ==
  /\ \E r \in {delete_account(book, account_id, db)} :
       book' = [accounts |-> r.accounts, ledger |-> r.ledger, n |-> book.n,
                last |-> [name |-> "delete_account", account_id |-> account_id,
                          accounts |-> book.accounts, ledger |-> book.ledger,
                          ret |-> r.ret]]
  /\ UNCHANGED <<pipeVars, gate, parser, chunker, builder, client>>

\* entry.account_id is an Option and may name any account, one that is
\* gone or was never there included; the store takes the row or rejects it
SaveLedgerEntry(account_id, dbOk) ==
  /\ Len(book.ledger) < MaxEntries
  /\ book' = [book EXCEPT
                !.ledger = IF dbOk THEN Append(@, account_id) ELSE @,
                !.last = [name |-> "save_ledger_entry", account_id |-> account_id,
                          accounts |-> book.accounts, ledger |-> book.ledger,
                          ret |-> IF dbOk THEN Returned(<<>>)
                                  ELSE Failed(<<"store error">>)]]
  /\ UNCHANGED <<pipeVars, gate, parser, chunker, builder, client>>

NextBook ==
  \/ \E dbOk \in BOOLEAN : AddAccount(dbOk)
  \/ \E account_id \in AccountIds, db \in DeleteAnswers : DeleteAccount(account_id, db)
  \/ \E account_id \in {None} \cup {Some(a) : a \in AccountIds}, dbOk \in BOOLEAN :
       SaveLedgerEntry(account_id, dbOk)

SpecBook == InitFresh /\ [][NextBook]_vars

(***************************************************************************)
(* The claims                                                              *)
(***************************************************************************)
\* C1: execute_query hands a statement to the store only if the statement,
\* leading white space skipped and letter case ignored, begins with the six
\* letters SELECT; every other statement (the empty one and
\* "DELETE FROM ledger" among them) gets the error "Only SELECT queries are
\* allowed" and nothing is handed to the store, while " select 1" and
\* "SELECTed" pass the gate.
C1_SelectGate ==
  gate.pc = "done" =>
    LET sql == gate.sql
        SameLetter(c, u) ==
          c = u \/ \E i \in 1..Len(Lower) : Lower[i] = c /\ UpperCase[i] = u
        BeginsWithSelect ==
          \E k \in 0..Len(sql) :
            /\ \A i \in 1..k : sql[i] \in WhiteSpace
            /\ Len(sql) >= k + 6
            /\ \A i \in 1..6 : SameLetter(sql[k + i], SELECT[i])
        rejected == gate.res = [ok |-> FALSE, e |-> OnlySelectMsg, prepared |-> <<>>]
    IN /\ gate.res.prepared # <<>> => BeginsWithSelect
       /\ BeginsWithSelect => gate.res.prepared = <<sql>>
       /\ ~ BeginsWithSelect => rejected
       /\ sql \in {<<>>, DeleteFromLedger} => rejected
       /\ sql \in {<<" ">> \o select_lower \o <<" ","1">>, SELECT \o <<"e","d">>}
            => gate.res.prepared = <<sql>>

C1_Witness ==
  /\ gate.pc = "done"
  /\ gate.sql = <<" ">> \o select_lower \o <<" ","1">>
  /\ gate.res.prepared = <<gate.sql>>
  /\ gate.res.ok


\* C2: when ANALYZE answers needs_data = false the invocation takes the
\* conversational branch and never calls execute_query, whatever the
\* question, the history and the statement the analysis may carry.
C2_NoDataNoSql ==
  \A p \in Procs :
    (analysis[p].some /\ ~ analysis[p].v.needs_data) =>
      /\ executed[p] = <<>>
      /\ prepared[p] = <<>>
      /\ \/ pc[p] = "conv" /\ llmCalls[p] = <<"analyze">>
         \/ pc[p] = "done" /\ llmCalls[p] = <<"analyze", "conv">>

C2_Witness ==
  \E p \in Procs :
    /\ pc[p] = "done"
    /\ analysis[p].some /\ ~ analysis[p].v.needs_data
    /\ analysis[p].v.sql_query = Some(Select1)
    /\ result[p].kind = "ok"
    /\ llmCalls[p] = <<"analyze", "conv">>

\* C3: when needs_data = true and the statement executes successfully with no
\* row, no FORMAT call is made and the invocation returns exactly one Text
\* card with is_error = false and the fixed body.
C3_EmptyResult ==
  \A p \in Procs :
    (/\ analysis[p].some /\ analysis[p].v.needs_data
     /\ storeAns[p].some
     /\ storeAns[p].v.prepare = "ok" /\ storeAns[p].v.query = "ok"
     /\ storeAns[p].v.rows = 0) =>
      /\ pc[p] = "done"
      /\ llmCalls[p] = <<"analyze">>
      /\ result[p] =
           [kind |-> "ok",
            v |-> [cards |-> << [type |-> "text",
                                 content |-> [body |-> NoDataBody,
                                              is_error |-> Some(FALSE)]] >>]]

C3_Witness ==
  \E p \in Procs :
    /\ pc[p] = "done" /\ path[p] = "empty"
    /\ analysis[p].v.needs_data
    /\ storeAns[p] = Some([prepare |-> "ok", query |-> "ok", rows |-> 0,
                           stepErr |-> FALSE])
    /\ prepared[p] = <<Select1>>
    /\ result[p].kind = "ok" /\ Len(result[p].v.cards) = 1

\* C4: every SQL failure inside process_query, be it the gate rejecting the
\* statement or the store failing at prepare, at query or while stepping
\* rows, ends the invocation with Ok and exactly one Text card with
\* is_error = true whose body carries the error message and the statement.
C4_SqlFailureCard ==
  \A p \in Procs :
    LET rejected == executed[p] # <<>> /\ prepared[p] = <<>>
        failed == /\ storeAns[p].some
                  /\ \/ storeAns[p].v.prepare = "err"
                     \/ storeAns[p].v.query = "err"
                     \/ storeAns[p].v.stepErr
    IN (rejected \/ failed) =>
         /\ pc[p] = "done"
         /\ result[p].kind = "ok"
         /\ Len(result[p].v.cards) = 1
         /\ result[p].v.cards[1].type = "text"
         /\ result[p].v.cards[1].content.is_error = Some(TRUE)
         /\ \E e \in {OnlySelectMsg, <<"prepare failed">>, <<"query failed">>,
                      <<"step failed">>} :
              result[p].v.cards[1].content.body =
                <<"I couldn't retrieve that data. Error: ">> \o e \o <<" in ">>
                  \o executed[p][1]

\* C5: parse_llm_response returns normally on every text, a text with a '}'
\* before its first '{' included, and on a text that is no JSON of the card
\* shape it returns exactly one Text card whose body is the text, verbatim,
\* with is_error = false.
C5_NeverThrows ==
  parser.pc = "done" =>
    /\ parser.out.kind = "ok"
    /\ ~ parser.origin.some =>
         parser.out.v =
           [cards |-> << [type |-> "text",
                          content |-> [body |-> parser.text,
                                       is_error |-> Some(FALSE)]] >>]

\* C6: parse_llm_response gives back v on the serialization of any
\* ResponseData v, and still gives back v when the serialization stands in a
\* markdown json fence between leading and trailing prose, prose that may
\* hold '{' or '}' included.
C6_RoundTrip ==
  (/\ parser.pc = "done" /\ parser.origin.some
   /\ \/ parser.origin.v.fenced
      \/ parser.origin.v.pre = <<>> /\ parser.origin.v.post = <<>>) =>
    parser.out = [kind |-> "ok", v |-> parser.origin.v.v]

\* C7: every ResponseData that process_query returns with Ok, on the empty
\* result, SQL error, FORMAT and CONVERSATIONAL paths and for any LLM text,
\* holds at least one card.
C7_AtLeastOneCard ==
  \A p \in Procs :
    (pc[p] = "done" /\ result[p].kind = "ok") => Len(result[p].v.cards) >= 1

\* C8: every invocation of process_query that returns Ok has saved exactly
\* one user message, the question, and, when the returned ResponseData holds
\* a card, exactly one assistant message summarising the first card; on the
\* FORMAT, CONVERSATIONAL, empty result and SQL error paths alike.
C8_OneUserOneAssistant ==
  \A p \in Procs :
    (pc[p] = "done" /\ result[p].kind = "ok") =>
      LET users == SelectSeq(saves[p], LAMBDA r : r.role = "user")
          assistants == SelectSeq(saves[p], LAMBDA r : r.role = "assistant")
          cards == result[p].v.cards
      IN /\ Len(users) = 1 /\ users[1].content = question[p]
         /\ cards # <<>> =>
              /\ Len(assistants) = 1
              /\ assistants[1].content =
                   (IF cards[1].type \in {"text", "mixed"}
                    THEN cards[1].content.body
                    ELSE IF cards[1].type = "chart"
                    THEN <<"[Chart: ">> \o cards[1].content.title \o <<"]">>
                    ELSE <<"[Table: ">> \o cards[1].content.title \o <<"]">>)

\* C9: a save_message that fails (no active session, or the store rejecting
\* the INSERT or the UPDATE) never decides the outcome: after the user
\* message the invocation goes on to the settings, and after the assistant
\* message it returns Ok with the parsed LLM answer, exactly as when the
\* save succeeds.
C9_SaveNeverDecides ==
  [][\A p \in Procs :
       saves'[p] # saves[p] =>
         LET saved == saves'[p][Len(saves'[p])] IN
         /\ saved.role = "user" =>
              pc'[p] = "settings" /\ result'[p] = result[p]
         /\ saved.role = "assistant" =>
              /\ pc'[p] = "done"
              /\ result'[p].kind = "ok"
              /\ result'[p] = parse_llm_response(llmText'[p].v)]_vars

C9_Witness ==
  \E p \in Procs :
    /\ pc[p] = "done" /\ result[p].kind = "ok" /\ path[p] = "format"
    /\ Len(saves[p]) = 2
    /\ ~ saves[p][1].ok /\ ~ saves[p][2].ok
    /\ ~ saves[p][2].stored
    /\ result[p] = parse_llm_response(llmText[p].v)

\* C10: for every page count n > 3, parse_pdf_statement_chunked works through
\* ceil(n/2) windows [start, end], 1-indexed and ascending, each of 2 pages
\* except possibly a shorter last one, every page of 1..n in exactly one
\* window; for n = 7 they are [1-2], [3-4], [5-6], [7-7].
C10_Partition ==
  (chunker.pc = "done" /\ chunker.result.kind = "ok" /\ chunker.page_count > 3) =>
    LET n == chunker.page_count
        w == chunker.windows
    IN /\ 2 * Len(w) \in {n, n + 1}
       /\ \A i \in 1..Len(w) : 1 <= w[i][1] /\ w[i][1] <= w[i][2] /\ w[i][2] <= n
       /\ \A i \in 1..(Len(w) - 1) :
            w[i][2] = w[i][1] + 1 /\ w[i + 1][1] = w[i][2] + 1
       /\ w[Len(w)][2] - w[Len(w)][1] \in {0, 1}
       /\ \A page \in 1..n :
            Cardinality({i \in 1..Len(w) : w[i][1] <= page /\ page <= w[i][2]}) = 1
       /\ n = 7 => w = << <<1, 2>>, <<3, 4>>, <<5, 6>>, <<7, 7>> >>

C10_Witness ==
  /\ chunker.pc = "done" /\ chunker.result.kind = "ok"
  /\ chunker.page_count = 7
  /\ chunker.windows = << <<1, 2>>, <<3, 4>>, <<5, 6>>, <<7, 7>> >>

C12_ConcatInOrder ==
  (chunker.pc = "done" /\ chunker.result.kind = "ok" /\ chunker.file.pages >= 4)
    => /\ Len(chunker.calls) = (chunker.file.pages + 1) \div 2
       /\ \A i \in 1..Len(chunker.calls) :
            /\ chunker.calls[i].ok
            /\ chunker.calls[i].start = 2 * i - 1
       /\ chunker.result.v =
            Concat([i \in 1..Len(chunker.calls) |-> chunker.calls[i].out])

C12_Witness ==
  /\ chunker.pc = "done"
  /\ chunker.file.pages = 4
  /\ Len(chunker.calls) = 2
  /\ chunker.calls[1].out = <<Tx1>>
  /\ chunker.calls[2].out = <<Tx1, Tx2>>
  /\ chunker.result = Returned(<<Tx1, Tx1, Tx2>>)

\* C13: if the vision call of one chunk fails, that chunk counts as an empty
\* list, the remaining chunks are still processed and the run returns Ok with
\* the transactions of the other chunks.
C13_FailedCallTolerated ==
  (/\ chunker.pc = "done"
   /\ chunker.file.pages >= 4
   /\ \E i \in 1..Len(chunker.calls) : ~ chunker.calls[i].ok)
    => /\ chunker.result.kind = "ok"
       /\ Len(chunker.calls) = (chunker.file.pages + 1) \div 2
       /\ chunker.result.v =
            Concat([i \in 1..Len(chunker.calls) |-> chunker.calls[i].out])

\* C14: whatever text the vision call of a chunk returns, a text without
\* brackets and a text whose last ']' comes before its first '[' included,
\* the chunk yields Ok with an empty list when no array can be parsed, and
\* the run goes on with the next chunk.
C14_UnparseableTolerated ==
  (/\ chunker.pc = "done"
   /\ chunker.file.pages >= 4
   /\ Len(chunker.calls) = Len(chunker.windows)
   /\ \A i \in 1..Len(chunker.calls) : chunker.calls[i].ok)
    => /\ chunker.result.kind = "ok"
       /\ Len(chunker.calls) = (chunker.file.pages + 1) \div 2

C16_AlwaysActive ==
  (Touched /\ ConvReady)
    => /\ current # NoSession
       /\ (conv.name = "clear_conversation" /\ conv.ret.kind = "ok")
            => /\ current = conv.ret.v
               /\ current # conv.before
               /\ current \notin conv.sessionsBefore

C18_BoundedContext ==
  builder.pc = "done" =>
    LET h == builder.history
        n == IF Len(h) < 10 THEN Len(h) ELSE 10
        Body(c) == IF Len(c) > 500 THEN SubSeq(c, 1, 500) \o <<".", ".", ".">> ELSE c
    IN IF h = <<>>
       THEN builder.context = Returned(<<>>)
       ELSE builder.context =
              Returned(ContextHeader
                         \o Concat([i \in 1..n |-> ContextLine(h[i].role, Body(h[i].content))])
                         \o ContextFooter)

\* C19: process_query keeps no copy of the session id: every message it
\* saves goes to the session the pointer names at the moment of that save.
\* Hence, with a clear_conversation running beside it, one invocation can
\* read its history from one session, save its user message to that
\* session and save its assistant message to another one.
C19_NoSnapshot ==
  [][\A p \in Procs :
       (Len(saves'[p]) > Len(saves[p]) /\ Len(messages') > Len(messages))
         => messages'[Len(messages')].session = current]_vars

C19_Witness ==
  /\ pc["p1"] = "done"
  /\ conv.pc = "done"
  /\ conv.name = "clear_conversation"
  /\ history["p1"] = <<[role |-> "user", content |-> <<"hi">>],
                       [role |-> "assistant", content |-> <<"Hello!">>]>>
  /\ Len(saves["p1"]) = 2
  /\ saves["p1"][1].role = "user"
  /\ saves["p1"][1].session = 1
  /\ saves["p1"][1].stored
  /\ saves["p1"][2].role = "assistant"
  /\ saves["p1"][2].session = 2
  /\ saves["p1"][2].stored
  /\ Len(messages) = 4
  /\ messages[3] = Row(1, "user", question["p1"])
  /\ messages[4].session = 2
  /\ messages[4].role = "assistant"

\* C20: call_llm_with_vision sends a request for an anthropic provider and
\* for every kind call_llm routes to the OpenAI-compatible adapter (openai,
\* openrouter, lmstudio); for google, ollama and any other kind it fails at
\* once with "Vision not supported" and sends nothing.
C20_VisionDispatch ==
  chunker.pc # "idle" =>
    \A i \in 1..Len(chunker.calls) :
      LET kind == chunker.provider_type
          supported ==
            kind = "anthropic" \/ text_adapter(kind) = "call_openai_compatible"
      IN IF supported
         THEN chunker.calls[i].request # "none"
         ELSE /\ chunker.calls[i].request = "none"
              /\ ~ chunker.calls[i].ok
              /\ chunker.result =
                   Failed(<<"Vision not supported for provider: ", kind>>)

\* C21: one call of call_llm never sends more than one request, whatever
\* the network does with it (success, a status that is not a success, a
\* failed send); for a kind call_llm supports it sends exactly one, except
\* that the Anthropic and Google adapters send none when the provider has
\* no API key.
C21_OneRequest ==
  client.pc = "done" =>
    /\ client.out.requests <= 1
    /\ text_adapter(client.kind) # "none" =>
         (client.out.requests = 0
            <=> (client.kind \in {"anthropic", "google"} /\ ~ client.has_key))

C21_Witness ==
  /\ client.pc = "done"
  /\ client.kind = "anthropic"
  /\ client.has_key
  /\ client.http.sent
  /\ client.http.status = 502
  /\ client.out.requests = 1
  /\ client.out.result.kind = "err"

\* C21 as stated: every supported kind sends exactly one request.
C21_AlwaysOne ==
  (client.pc = "done" /\ text_adapter(client.kind) # "none")
    => client.out.requests = 1

\* C22: every adapter answers a status that is not a success with
\* "<backend> API error: " followed by the error.message of the body, or by
\* "Unknown error" when the body has none or is no JSON.
C22_ProviderError ==
  (/\ client.pc = "done"
   /\ client.out.requests = 1
   /\ client.http.sent
   /\ client.http.status \notin 200..299)
    => \E msg \in {<<"boom">>, <<"Unknown error">>} :
         /\ msg = <<"boom">>
              <=> client.http.body =
                    ToJson(JObj(<< <<<<"error">>,
                                     JObj(<< <<<<"message">>, JStr(<<"boom">>)>> >>)>> >>))
         /\ client.out.result =
              Failed(<<Adapter(text_adapter(client.kind)).label, " API error: ">> \o msg)

\* C23: once the ANALYZE call has answered with a text, analyze_query
\* returns Ok: the invocation never aborts in it, and it has an analysis,
\* which is {needs_data: false, sql_query: none, query_type: "general"} for
\* the texts no attempt can parse, "} {" included.
C23_AnalyzeFallback ==
  \A p \in Procs :
    llmCalls[p] = <<"analyze">> =>
      /\ result[p].kind # "panic"
      /\ result[p] = Failed(<<"llm error">>) \/ analysis[p].some

\* C24: when no attempt can parse the answer of the FORMAT call, the
\* invocation returns one Text card flagged is_error = true whose body is
\* the answer.
C24_FormatFallback ==
  \A p \in Procs :
    (/\ llmCalls[p] = <<"analyze", "format">>
     /\ llmText[p] = Some(<<"s","o","r","r","y">>)
     /\ result[p].kind = "ok")
      => result[p].v = [cards |-> <<TextCard(<<"s","o","r","r","y">>, Some(TRUE))>>]

\* C25: in every invocation of process_query the LLM calls made so far are
\* none, ANALYZE alone, ANALYZE then FORMAT, or ANALYZE then CONVERSATIONAL:
\* ANALYZE comes first and once, FORMAT and CONVERSATIONAL never both, at
\* most two calls.  FORMAT is called only after execute_query has succeeded
\* on the analysed statement with row_count > 0; the empty-result and the
\* SQL-error replies are given without a second call; an invocation that
\* has ended on an analysis with needs_data = false has made exactly one
\* CONVERSATIONAL call and has executed nothing.
C25_PipelineOrder ==
  \A p \in Procs :
    /\ llmCalls[p] \in {<<>>, <<"analyze">>, <<"analyze", "format">>,
                        <<"analyze", "conv">>}
    /\ pc[p] \in {"execute", "format", "conv"} => llmCalls[p] = <<"analyze">>
    /\ (pc[p] = "format" \/ llmCalls[p] = <<"analyze", "format">>) =>
         /\ analysis[p].some /\ analysis[p].v.needs_data
         /\ Len(executed[p]) = 1
         /\ storeAns[p].some
         /\ execute_query(storeAns[p].v, executed[p][1]).ok
         /\ RowCountOf(execute_query(storeAns[p].v, executed[p][1]).v) > 0
    /\ path[p] \in {"empty", "sqlerr"} => llmCalls[p] = <<"analyze">>
    /\ (pc[p] = "done" /\ analysis[p].some /\ ~ analysis[p].v.needs_data) =>
         /\ llmCalls[p] = <<"analyze", "conv">>
         /\ executed[p] = <<>>

C25_Witness ==
  /\ pc["p1"] = "done"
  /\ llmCalls["p1"] = <<"analyze", "format">>
  /\ path["p1"] = "format"
  /\ result["p1"].kind = "ok"
  /\ Len(executed["p1"]) = 1
  /\ storeAns["p1"].some
  /\ storeAns["p1"].v.rows > 0

\* C26: in one run of parse_pdf_statement_chunked at most one chunk's call
\* is awaited at a time, and while the call for window k+1 is awaited the
\* answers for windows 1..k have all been received and parsed, in order.
C26_OneCallInFlight ==
  chunker.pc # "idle" =>
    /\ Len(chunker.in_flight) <= 1
    /\ chunker.in_flight # <<>> <=> chunker.pc = "await"
    /\ chunker.pc = "await" =>
         /\ chunker.in_flight[1] =
              <<start_page(chunker.chunk_idx),
                end_page(chunker.chunk_idx, chunker.page_count)>>
         /\ Len(chunker.calls) = chunker.chunk_idx
         /\ \A i \in 1..Len(chunker.calls) :
              /\ chunker.calls[i].start = start_page(i - 1)
              /\ chunker.calls[i].ok
              /\ chunker.calls[i].end = end_page(i - 1, chunker.page_count)
         /\ chunker.result = NoResult

C26_Witness ==
  /\ chunker.pc = "await"
  /\ chunker.chunk_idx = 2
  /\ Len(chunker.calls) = 2
  /\ chunker.in_flight = <<<<5, 6>>>>
  /\ chunker.all_transactions # <<>>

\* C27: when get_or_create_session is called as a command while
\* process_query makes its own call of it, both starting with no session
\* row and an empty pointer, one session row is created and both calls end
\* on the same session id.
C27_OneSession ==
  (/\ conv.pc = "done"
   /\ conv.name = "get_or_create_session"
   /\ conv.sessionsBefore = {}
   /\ conv.before = NoSession
   /\ pc["p1"] \notin {"idle", "session", "create"})
    => /\ Cardinality(sessions) <= 1
       /\ conv.ret.kind = "ok" => conv.ret.v = current

\* C28: process_query calls save_message for the question once, before it
\* loads the settings and before any LLM call, and an invocation that
\* returns Err has made no other save: where the store took the row, the
\* newest message is that user message, in the session that was current,
\* and where the save failed the invocation has left no message at all;
\* there is no assistant message in either case.
C28_UserSavedFirst ==
  \A p \in Procs :
    /\ (pc[p] \in {"settings", "analyze", "execute", "format", "conv"}
        \/ llmCalls[p] # <<>>) =>
         /\ saves[p] # <<>>
         /\ saves[p][1].role = "user"
         /\ saves[p][1].content = question[p]
    /\ (pc[p] = "done" /\ result[p].kind = "err") =>
         /\ Len(saves[p]) = 1
         /\ saves[p][1].ok => saves[p][1].stored
         /\ saves[p][1].stored =>
              /\ messages # <<>>
              /\ messages[Len(messages)] =
                   Row(saves[p][1].session, "user", question[p])
              /\ saves[p][1].session = current

C28_Witness ==
  /\ pc["p1"] = "done"
  /\ result["p1"] = Failed(<<"llm error">>)
  /\ llmCalls["p1"] = <<"analyze", "format">>
  /\ Len(saves["p1"]) = 1
  /\ saves["p1"][1].stored
  /\ messages[Len(messages)] = Row(current, "user", question["p1"])

\* C28 as stated: every invocation that returns Err has left exactly one new
\* user message in the current session.
C28_AlwaysOneUserRow ==
  \A p \in Procs :
    (pc[p] = "done" /\ result[p].kind = "err") =>
      /\ Len(saves[p]) = 1
      /\ saves[p][1].stored
      /\ messages # <<>>
      /\ messages[Len(messages)] = Row(current, "user", question[p])

C30_DefaultAccountKept ==
  /\ [id |-> DefaultAccountId, is_default |-> 1] \in book.accounts
  /\ book.last.name = "delete_account" =>
       LET id == book.last.account_id
           was == {a \in book.last.accounts : a.id = id}
       IN /\ (\E a \in was : a.is_default = 1) =>
               /\ book.last.ret.kind = "err"
               /\ book.accounts = book.last.accounts
               /\ book.ledger = book.last.ledger
          /\ book.last.ret.kind = "ok" =>
               /\ was = {[id |-> id, is_default |-> 0]}
               /\ book.accounts = book.last.accounts \ was
               /\ \A i \in 1..Len(book.ledger) : book.ledger[i] # Some(id)
               /\ Len(book.ledger) = Len(book.last.ledger)
               /\ \A i \in 1..Len(book.ledger) :
                    book.ledger[i] =
                      IF book.last.ledger[i] = Some(id)
                      THEN Some(DefaultAccountId) ELSE book.last.ledger[i]

C30_Witness ==
  /\ book.last.name = "delete_account"
  /\ book.last.ret.kind = "ok"
  /\ book.last.account_id = Uuid(1)
  /\ book.last.ledger = <<Some(Uuid(1)), Some(Uuid(2))>>
  /\ book.ledger = <<Some(DefaultAccountId), Some(Uuid(2))>>
  /\ book.accounts = {[id |-> DefaultAccountId, is_default |-> 1],
                      [id |-> Uuid(2), is_default |-> 0]}

====
